---- MODULE Spec2Model ----
(***************************************************************************)
(* Model of the LLM-driven NPC decision core: NPCController               *)
(* (src/npc/controller.py), the action parser (src/npc/actions.py) and    *)
(* the engine services it calls on LLMDrivenNPC                            *)
(* (src/zelda_game_llm_integration.py): move, say and the inventory.      *)
(*                                                                         *)
(* A string whose prefix the code tests (result.startswith("invalid"))    *)
(* is the record [head, rest]: head is the text before the first ':' and  *)
(* rest what follows it.  "blocked:wall" is [head |-> "blocked",           *)
(* rest |-> "wall"].                                                       *)
(***************************************************************************)
EXTENDS Integers, Sequences, FiniteSets, TLC

VARIABLES
    npc_rect,                 \* npc.rect.x, npc.rect.y
    speech_text,              \* npc.speech_text
    npc_inventory,            \* npc.inventory, a sequence of slots
    target_inventory,         \* inventory of the other character
    cooldowns,                \* controller.cooldowns
    last_result,              \* controller.last_result
    last_decision_time,       \* controller.last_decision_time
    consecutive_errors,       \* controller.consecutive_errors
    active_movement,          \* controller.active_movement
    movement_target,          \* controller.movement_target
    movement_steps_remaining, \* controller.movement_steps_remaining
    movement_direction,       \* controller.movement_direction
    idle_behavior_enabled,    \* controller._idle_behavior_enabled
    clock,                    \* engine_state["current_time"] of the latest tick
    player_spoke,             \* engine_state["player_spoke"] of the latest tick
    ret,                      \* what the latest npc_decision_tick returned
    llm_calls,                \* llm_client.decide calls made by the latest tick
    actions_executed,         \* action executions started by the latest tick
    executed_action,          \* the executor the latest tick ran, or "none"
    executed_direction,       \* the direction of the move it ran, or "none"
    llm_reply_kind,           \* what the LLM client handed the latest tick
    executed_distance,        \* args.distance of the LLM's move it ran, in tenths
    executed_tile,            \* args.x, args.y of the LLM's move_to it ran
    executed_item,            \* args.item_id of the transfer_item it ran
    executed_entity,          \* args.entity_id of the interact it ran
    move_ok_time,             \* time of the latest move that returned ok
    waiting_for_llm,          \* shopkeeper.waiting_for_llm (standalone game)
    llm_request_id,           \* shopkeeper.llm_request_id
    pending_reaction,         \* shopkeeper.pending_reaction, "" for None
    reaction_timer,           \* shopkeeper.reaction_timer
    shopkeeper_speech_text,   \* shopkeeper.speech_text
    speech_timer,             \* shopkeeper.speech_timer
    worker_threads,           \* callback ids of the running make_request threads
    response_queue,           \* llm_client.response_queue
    player_speech_text,       \* player.speech_text: the utterance shown, 0 for ""
    player_speech_timer,      \* player.speech_timer
    last_player_speech,       \* npc.last_player_speech, 0 for None
    last_player_speech_time,  \* npc.last_player_speech_time
    utterances,               \* how many times the player has spoken
    last_said_sent,           \* per utterance, the observations sent with it
    conversation_history,     \* shopkeeper.conversation_history
    appended,                 \* every entry handed to the history, in order
    decide_pc,                \* where LLMClient.decide is: idle, requesting, returned
    decide_attempt,           \* attempt, the loop variable of decide
    http_log,                 \* what each requests.post of the call came back with
    decide_result,            \* what decide returned: [response, error]
    slept,                    \* ms the call has slept between attempts
    last_raw_text,            \* the text last handed to parse_action
    last_parsed,              \* what that call returned
    parse_called,             \* parse_action has been called in this run
    serialised_from,          \* the action the text was serialised from, if it was
    process_hash_order,       \* the order of names in a set of this process
    obs_npc,                  \* build_observation: the centre of npc.rect
    obs_player,               \* the centre of player.rect
    obs_walls,                \* engine_state["walls"]
    obs_entities,             \* engine_state["entities"]
    ascii_grid,               \* the grid of the observation, <<>> before it is built
    nav_walls,                \* wall rectangles the navigator was last set up from
    walkable_grid,            \* HierarchicalNavigator.walkable_grid: tile -> walkable
    tile_to_region,           \* HierarchicalNavigator.tile_to_region: walkable tile -> region id
    portals,                  \* HierarchicalNavigator.portals: portal id -> portal
    last_portal_call,         \* arguments of the latest set_portal_open call
    path_query,               \* the latest PathQuery, as start and goal points
    path_response             \* the PathResponse of the latest find_path call

vars == <<npc_rect, speech_text, npc_inventory, target_inventory, cooldowns,
          last_result, last_decision_time, consecutive_errors, active_movement,
          movement_target, movement_steps_remaining, movement_direction,
          idle_behavior_enabled, clock, player_spoke, ret, llm_calls,
          actions_executed, executed_action, executed_direction,
          llm_reply_kind, executed_distance, executed_tile,
          executed_item, executed_entity, move_ok_time,
          waiting_for_llm, llm_request_id, pending_reaction, reaction_timer,
          shopkeeper_speech_text, speech_timer, worker_threads,
          response_queue, player_speech_text, player_speech_timer,
          last_player_speech, last_player_speech_time, utterances,
          last_said_sent, conversation_history, appended,
          decide_pc, decide_attempt, http_log, decide_result, slept,
          last_raw_text, last_parsed, parse_called, serialised_from,
          process_hash_order,
          obs_npc, obs_player, obs_walls, obs_entities, ascii_grid,
          nav_walls, walkable_grid, tile_to_region, portals,
          last_portal_call, path_query, path_response>>

\* the ghost of the dialogue history
historyVars == <<appended>>

\* one call of LLMClient.decide
clientVars == <<decide_pc, decide_attempt, http_log, decide_result, slept>>

\* parse_action on its own
parserVars == <<last_raw_text, last_parsed, parse_called, serialised_from,
                process_hash_order>>

\* build_observation on its own
gridVars == <<obs_npc, obs_player, obs_walls, obs_entities, ascii_grid>>

\* the navigator on its own
navVars == <<nav_walls, walkable_grid, tile_to_region, portals,
            last_portal_call, path_query, path_response>>

\* the variables of the functions that are examined on their own
pureVars == <<historyVars, clientVars, parserVars, gridVars, navVars>>

\* the state of the game around the controller: the player's speech bubble
\* and what the NPC heard
hostVars == <<player_speech_text, player_speech_timer, last_player_speech,
              last_player_speech_time, utterances, last_said_sent>>

\* the state of the standalone game's shopkeeper and its LLMClient
shopkeeperVars == <<waiting_for_llm, llm_request_id, pending_reaction,
                    reaction_timer, shopkeeper_speech_text, speech_timer,
                    worker_threads, response_queue, conversation_history>>

\* the state of the NPC the controller drives, and the record of its tick
controllerVars == <<npc_rect, speech_text, npc_inventory, target_inventory,
                    cooldowns, last_result, last_decision_time,
                    consecutive_errors, active_movement, movement_target,
                    movement_steps_remaining, movement_direction,
                    idle_behavior_enabled, clock, player_spoke, ret, llm_calls,
                    actions_executed, executed_action, executed_direction,
                    llm_reply_kind, executed_distance, executed_tile,
                    executed_item, executed_entity, move_ok_time>>

----------------------------------------------------------------------------
(* Program constants *)

TILE_SIZE == 32
MOVE_COOLDOWN == 200
INTERACT_COOLDOWN == 1000
CONTINUE_INTERVAL == 200
max_consecutive_errors == 3
error_backoff_time == 2000
decision_interval == 4000
NPC_SPEED == 4
NPC_WIDTH == 20
NPC_HEIGHT == 20
SCREEN_WIDTH == 800
SCREEN_HEIGHT == 600
ARRIVE_DISTANCE == 16
INTERACT_DISTANCE == 64
NEARBY_DISTANCE == 200
MOVE_TO_STEP_BUFFER == 10
MOVE_TO_STEP_CAP == 200

(* Bounds of the model *)

RoomW == 36              \* the walls leave the NPC a room RoomW x RoomH px
RoomH == 20
NpcInvSize == 2          \* slots of the NPC's inventory
MaxUtterances == 3       \* how many times the player speaks in a run
TargetInvSize == 1       \* slots of the other character's inventory

None == [head |-> "None", rest |-> ""]
Str(h, r) == [head |-> h, rest |-> r]
OK == Str("ok", "")
startswith(s, p) == s.head = p

Max(a, b) == IF a >= b THEN a ELSE b
Min(a, b) == IF a <= b THEN a ELSE b
Abs(a) == IF a >= 0 THEN a ELSE 0 - a

----------------------------------------------------------------------------
(* The world handed to the controller in engine_state *)

Rect(x, y, w, h) == [x |-> x, y |-> y, w |-> w, h |-> h]

\* walls east and south of the room; the screen edge closes it north and west
Walls == { Rect(RoomW, 0, TILE_SIZE, RoomH + TILE_SIZE),
           Rect(0, RoomH, RoomW, TILE_SIZE) }

\* Shop.walls of the game
ShopWalls ==
    { Rect(300, 200, 200, 10), Rect(300, 390, 80, 10), Rect(420, 390, 80, 10),
      Rect(300, 200, 10, 190), Rect(490, 200, 10, 190) }

\* the other character of engine_state["characters"], beyond the east wall
TargetName == "Marta"
SelfName == "Garruk"
PlayerName == "Player"
TargetRect == Rect(RoomW + TILE_SIZE, 0, NPC_WIDTH, NPC_HEIGHT)
PlayerRect == Rect(RoomW + TILE_SIZE, 22, TILE_SIZE - 4, TILE_SIZE - 4)
OtherCharacters == { TargetRect, PlayerRect }

\* engine_state["entities"]
Entities == { [id |-> "door_1", x |-> RoomW + 50, y |-> 12],
              [id |-> "chest_1", x |-> 400, y |-> 300] }

colliderect(a, b) ==
    /\ a.x < b.x + b.w
    /\ b.x < a.x + a.w
    /\ a.y < b.y + b.h
    /\ b.y < a.y + a.h

NpcRect(p) == Rect(p.x, p.y, NPC_WIDTH, NPC_HEIGHT)
centerx(p) == p.x + NPC_WIDTH \div 2
centery(p) == p.y + NPC_HEIGHT \div 2
RectCenterX(r) == r.x + r.w \div 2
RectCenterY(r) == r.y + r.h \div 2

\* squared Euclidean distance; the code compares math.sqrt of it to a bound
Dist2(dx, dy) == dx * dx + dy * dy

\* LLMDrivenNPC.move: X first, then Y from the updated rect
XFree(p, nx) ==
    LET r == NpcRect([x |-> nx, y |-> p.y]) IN
    /\ r.x >= 0
    /\ r.x + r.w <= SCREEN_WIDTH
    /\ \A w \in Walls : ~colliderect(r, w)
    /\ \A c \in OtherCharacters : ~colliderect(r, c)

YFree(p, ny) ==
    LET r == NpcRect([x |-> p.x, y |-> ny]) IN
    /\ r.y >= 0
    /\ r.y + r.h <= SCREEN_HEIGHT
    /\ \A w \in Walls : ~colliderect(r, w)
    /\ \A c \in OtherCharacters : ~colliderect(r, c)

\* nx, ny: rect.x + dx and rect.y + dy as the Rect stores them
move(p, nx, ny, hasDx, hasDy) ==
    LET p1 == IF hasDx /\ XFree(p, nx) THEN [x |-> nx, y |-> p.y] ELSE p
    IN  IF hasDy /\ YFree(p1, ny) THEN [x |-> p1.x, y |-> ny] ELSE p1

----------------------------------------------------------------------------
(* Inventory of LLMDrivenNPC: a sequence of slots, Empty or [id, quantity] *)

Empty == [id |-> "<empty>", quantity |-> 0]
Slot(i, q) == [id |-> i, quantity |-> q]

\* index of the first empty slot, 0 if there is none
FirstEmpty(inv) ==
    IF \E i \in 1..Len(inv) : inv[i] = Empty
    THEN CHOOSE i \in 1..Len(inv) :
            inv[i] = Empty /\ \A j \in 1..(i-1) : inv[j] # Empty
    ELSE 0

Holds(s, item_id) == s # Empty /\ s.id = item_id

\* index of the first slot holding item_id, 0 if there is none
FirstHolding(inv, item_id) ==
    IF \E i \in 1..Len(inv) : Holds(inv[i], item_id)
    THEN CHOOSE i \in 1..Len(inv) :
            Holds(inv[i], item_id) /\ \A j \in 1..(i-1) : ~Holds(inv[j], item_id)
    ELSE 0

\* add_item: [inv, ok]; always the first empty slot, never an existing stack
add_item(inv, item_id, quantity) ==
    LET i == FirstEmpty(inv) IN
    IF i = 0 THEN [inv |-> inv, ok |-> FALSE]
    ELSE [inv |-> [inv EXCEPT ![i] = Slot(item_id, quantity)], ok |-> TRUE]

\* remove_item: [inv, removed]; acts on the first slot holding item_id
remove_item(inv, item_id, quantity) ==
    LET i == FirstHolding(inv, item_id)
    IN  IF i = 0 THEN [inv |-> inv, removed |-> 0]
        ELSE IF inv[i].quantity <= quantity
             THEN [inv |-> [inv EXCEPT ![i] = Empty], removed |-> inv[i].quantity]
             ELSE [inv |-> [inv EXCEPT ![i].quantity = @ - quantity],
                   removed |-> quantity]

\* has_item: the quantity in the first slot holding item_id, else 0
has_item(inv, item_id) ==
    LET i == FirstHolding(inv, item_id)
    IN  IF i = 0 THEN 0 ELSE inv[i].quantity

----------------------------------------------------------------------------
(* parse_action.  A reply is modelled by what json.loads makes of it:     *)
(* kind "text" does not decode, "array" decodes to a non-object, "object" *)
(* decodes to a dict with the given top-level keys; args is the value of  *)
(* "args" (argsDict: it is a dict), a function from its keys to values.   *)
(* A distance is held in tenths of a tile.                                *)

Directions == {"N", "E", "S", "W"}

SayValid(a) == "text" \in DOMAIN a /\ Len(a.text) >= 1 /\ Len(a.text) <= 100
MoveValid(a) ==
    /\ "direction" \in DOMAIN a /\ a.direction \in Directions
    /\ "distance" \in DOMAIN a /\ a.distance >= 1 /\ a.distance <= 50
MoveToValid(a) == "x" \in DOMAIN a /\ "y" \in DOMAIN a
InteractValid(a) == "entity_id" \in DOMAIN a
TransferValid(a) == "entity_id" \in DOMAIN a /\ "item_id" \in DOMAIN a

ArgsValid(action_type, a) ==
    CASE action_type = "say" -> SayValid(a)
      [] action_type = "move" -> MoveValid(a)
      [] action_type = "move_to" -> MoveToValid(a)
      [] action_type = "interact" -> InteractValid(a)
      [] action_type = "transfer_item" -> TransferValid(a)
      [] OTHER -> FALSE

ActionNames == {"say", "move", "move_to", "interact", "transfer_item"}

\* a reply that does not decode is reported as invalid
DecodeError_invalid(raw) ==
    IF raw.kind = "text" THEN Str("invalid", " Invalid JSON")
    ELSE IF raw.kind # "object" THEN Str("invalid", " Root must be JSON object")
    ELSE Str("", "")

\* the error of a reply that json.loads rejects or that is not an object
DecodeError(raw) ==
    IF raw.kind = "text" THEN Str("parse_error", " Invalid JSON")
    ELSE IF raw.kind # "object" THEN Str("parse_error", " Root must be JSON object")
    ELSE Str("", "")

\* parse_action: [action, error]; error = Str("", "") on success
parse_action(raw) ==
    LET fail(e) == [action |-> [action |-> "none", args |-> <<>>], error |-> e] IN
    IF DecodeError(raw) # Str("", "") THEN fail(DecodeError(raw))
    ELSE IF "action" \notin raw.keys THEN fail(Str("invalid", " Missing 'action' field"))
    ELSE IF "args" \notin raw.keys THEN fail(Str("invalid", " Missing 'args' field"))
    ELSE IF raw.action \notin ActionNames
         THEN fail(Str("invalid", " Unknown action type"))
    ELSE IF ~raw.argsDict THEN fail(Str("parse_error", " argument after ** must be a mapping"))
    ELSE IF ~ArgsValid(raw.action, raw.args) THEN fail(Str("invalid", " validation error"))
    ELSE IF raw.keys \ {"action", "args"} # {}
         THEN fail(Str("invalid", " Extra fields not allowed"))
    ELSE [action |-> [action |-> raw.action, args |-> raw.args], error |-> Str("", "")]

----------------------------------------------------------------------------
(* Action execution.  An engine-and-movement state e is the record        *)
(* [rect, speech, inv, tinv, cd, am, target, steps, dir]; every executor  *)
(* yields [e, result].  A result with head "raise" is an exception that   *)
(* leaves the executor.                                                    *)

NoTarget == [set |-> FALSE, x |-> 0, y |-> 0]
Target(x, y) == [set |-> TRUE, x |-> x, y |-> y]

RECURSIVE ISqrtFrom(_, _)
ISqrtFrom(k, n) == IF (k + 1) * (k + 1) > n THEN k ELSE ISqrtFrom(k + 1, n)
\* int(math.sqrt(n))
ISqrt(n) == ISqrtFrom(0, n)

\* int(speed * |d| / distance) and its ceiling, distance = sqrt(D)
StepFloor(d, D) == ISqrt((NPC_SPEED * NPC_SPEED * d * d) \div D)
StepCeil(d, D) ==
    IF StepFloor(d, D) * StepFloor(d, D) * D = NPC_SPEED * NPC_SPEED * d * d
    THEN StepFloor(d, D) ELSE StepFloor(d, D) + 1

\* rect.x + (d / distance) * speed as the integer the Rect keeps (truncation)
StepCoord(x, d, D) ==
    IF d = 0 THEN x
    ELSE IF d > 0 THEN x + StepFloor(d, D)
    ELSE IF x - StepCeil(d, D) >= 0 THEN x - StepCeil(d, D)
    ELSE x - StepFloor(d, D)

\* npc.say fails after it has set the text
_execute_say_fails_after_speaking(e, args) ==
    [e |-> [e EXCEPT !.speech = args.text], result |-> Str("invalid", " Say failed")]

_execute_say(e, args) ==
    [e |-> [e EXCEPT !.speech = args.text], result |-> OK]

DirDelta(direction) ==
    CASE direction = "N" -> [dx |-> 0, dy |-> 0 - NPC_SPEED]
      [] direction = "S" -> [dx |-> 0, dy |-> NPC_SPEED]
      [] direction = "E" -> [dx |-> NPC_SPEED, dy |-> 0]
      [] direction = "W" -> [dx |-> 0 - NPC_SPEED, dy |-> 0]

\* the steps are rounded up instead of truncated
TotalSteps_ceil(distance10) ==
    Max(1, (distance10 * (TILE_SIZE \div NPC_SPEED) + 9) \div 10)

\* total_steps of a new sequence; distance_tiles in tenths of a tile
TotalSteps(distance10) ==
    Max(1, (distance10 * (TILE_SIZE \div NPC_SPEED)) \div 10)

\* a blocked step leaves the sequence active
MoveDirOutcome_keeps_sequence(e, p, direction, distance10) ==
    IF p # e.rect
    THEN IF e.am = "none"
         THEN [e |-> [e EXCEPT !.rect = p, !.cd.move = MOVE_COOLDOWN,
                               !.am = "move_dir",
                               !.steps = TotalSteps(distance10) - 1,
                               !.dir = direction],
               result |-> OK]
         ELSE IF e.steps - 1 <= 0
              THEN [e |-> [e EXCEPT !.rect = p, !.cd.move = MOVE_COOLDOWN,
                                    !.steps = e.steps - 1, !.am = "none",
                                    !.dir = "none"],
                    result |-> OK]
              ELSE [e |-> [e EXCEPT !.rect = p, !.cd.move = MOVE_COOLDOWN,
                                    !.steps = e.steps - 1],
                    result |-> OK]
    ELSE [e |-> e, result |-> Str("blocked", "wall")]

\* the sequence is cleared one step late
MoveDirOutcome_late_clear(e, p, direction, distance10) ==
    IF p # e.rect
    THEN IF e.am = "none"
         THEN [e |-> [e EXCEPT !.rect = p, !.cd.move = MOVE_COOLDOWN,
                               !.am = "move_dir",
                               !.steps = TotalSteps(distance10) - 1,
                               !.dir = direction],
               result |-> OK]
         ELSE IF e.steps - 1 < 0
              THEN [e |-> [e EXCEPT !.rect = p, !.cd.move = MOVE_COOLDOWN,
                                    !.steps = e.steps - 1, !.am = "none",
                                    !.dir = "none"],
                    result |-> OK]
              ELSE [e |-> [e EXCEPT !.rect = p, !.cd.move = MOVE_COOLDOWN,
                                    !.steps = e.steps - 1],
                    result |-> OK]
    ELSE [e |-> [e EXCEPT !.am = "none", !.steps = 0],
          result |-> Str("blocked", "wall")]

\* lines 285-327: p is npc.rect after npc.move
MoveDirOutcome(e, p, direction, distance10) ==
    IF p # e.rect
    THEN IF e.am = "none"
         THEN [e |-> [e EXCEPT !.rect = p, !.cd.move = MOVE_COOLDOWN,
                               !.am = "move_dir",
                               !.steps = TotalSteps(distance10) - 1,
                               !.dir = direction],
               result |-> OK]
         ELSE IF e.steps - 1 <= 0
              THEN [e |-> [e EXCEPT !.rect = p, !.cd.move = MOVE_COOLDOWN,
                                    !.steps = e.steps - 1, !.am = "none",
                                    !.dir = "none"],
                    result |-> OK]
              ELSE [e |-> [e EXCEPT !.rect = p, !.cd.move = MOVE_COOLDOWN,
                                    !.steps = e.steps - 1],
                    result |-> OK]
    ELSE [e |-> [e EXCEPT !.am = "none", !.steps = 0],
          result |-> Str("blocked", "wall")]

MoveDirStep(p, d) == move(p, p.x + d.dx, p.y + d.dy, d.dx # 0, d.dy # 0)

_execute_move_dir(e, direction, distance10) ==
    IF e.cd.move > 0 THEN [e |-> e, result |-> Str("cooldown", "")]
    ELSE MoveDirOutcome(e, MoveDirStep(e.rect, DirDelta(direction)), direction,
                        distance10)

ClearMovement(e) == [e EXCEPT !.am = "none", !.target = NoTarget, !.steps = 0]

\* one step of npc.speed pixels from rect p along (dx, dy), D = dx^2 + dy^2
StepAlong(p, dx, dy, D) ==
    move(p, StepCoord(p.x, dx, D), StepCoord(p.y, dy, D), dx # 0, dy # 0)

StepTowards(p, tx, ty) ==
    StepAlong(p, tx - centerx(p), ty - centery(p),
              Dist2(tx - centerx(p), ty - centery(p)))

\* lines 349-390: D is the squared distance to the target, p npc.rect after
\* npc.move
MoveToOutcome(e, tx, ty, D, p) ==
    IF D < ARRIVE_DISTANCE * ARRIVE_DISTANCE THEN [e |-> e, result |-> OK]
    ELSE IF p # e.rect
    THEN [e |-> [e EXCEPT !.target = Target(tx, ty), !.am = "move_to",
                          !.rect = p, !.cd.move = MOVE_COOLDOWN,
                          !.steps = Min(ISqrt(D) \div NPC_SPEED + MOVE_TO_STEP_BUFFER,
                                        MOVE_TO_STEP_CAP) - 1],
          result |-> OK]
    ELSE [e |-> ClearMovement(e), result |-> Str("blocked", "obstacle")]

_execute_move_to(e, args) ==
    IF e.cd.move > 0 THEN [e |-> e, result |-> Str("cooldown", "")]
    ELSE MoveToOutcome(e, args.x * TILE_SIZE, args.y * TILE_SIZE,
                       Dist2(args.x * TILE_SIZE - centerx(e.rect),
                             args.y * TILE_SIZE - centery(e.rect)),
                       StepTowards(e.rect, args.x * TILE_SIZE, args.y * TILE_SIZE))

\* arriving within 16 px returns ok but leaves the sequence recorded
ContinueOutcome_arrival_keeps_state(e, D, p) ==
    IF D < ARRIVE_DISTANCE * ARRIVE_DISTANCE
    THEN [e |-> e, result |-> OK]
    ELSE IF p # e.rect
    THEN IF e.steps - 1 <= 0
         THEN [e |-> ClearMovement([e EXCEPT !.rect = p]), result |-> OK]
         ELSE [e |-> [e EXCEPT !.rect = p, !.steps = e.steps - 1],
               result |-> OK]
    ELSE [e |-> ClearMovement(e), result |-> Str("blocked", "obstacle")]

\* lines 484-529
ContinueOutcome(e, D, p) ==
    IF D < ARRIVE_DISTANCE * ARRIVE_DISTANCE
    THEN [e |-> ClearMovement(e), result |-> OK]
    ELSE IF p # e.rect
    THEN IF e.steps - 1 <= 0
         THEN [e |-> ClearMovement([e EXCEPT !.rect = p]), result |-> OK]
         ELSE [e |-> [e EXCEPT !.rect = p, !.steps = e.steps - 1],
               result |-> OK]
    ELSE [e |-> ClearMovement(e), result |-> Str("blocked", "obstacle")]

_continue_move_to(e) ==
    IF ~e.target.set
    THEN [e |-> [e EXCEPT !.am = "none", !.steps = 0], result |-> OK]
    ELSE ContinueOutcome(e,
            Dist2(e.target.x - centerx(e.rect), e.target.y - centery(e.rect)),
            StepTowards(e.rect, e.target.x, e.target.y))

\* interact starts the move cooldown instead of its own
_execute_interact_move_cooldown(e, args) ==
    IF e.cd.interact > 0 THEN [e |-> e, result |-> Str("cooldown", "")]
    ELSE IF ~\E ent \in Entities : ent.id = args.entity_id
    THEN [e |-> e, result |-> Str("invalid", " Entity not found")]
    ELSE
    LET ent == CHOOSE en \in Entities : en.id = args.entity_id IN
    IF Dist2(ent.x - centerx(e.rect), ent.y - centery(e.rect))
         > INTERACT_DISTANCE * INTERACT_DISTANCE
    THEN [e |-> e, result |-> Str("blocked", "too_far")]
    ELSE [e |-> [e EXCEPT !.cd.move = INTERACT_COOLDOWN], result |-> OK]

\* interact does not look at the distance to the entity
_execute_interact_any_distance(e, args) ==
    IF e.cd.interact > 0 THEN [e |-> e, result |-> Str("cooldown", "")]
    ELSE IF ~\E ent \in Entities : ent.id = args.entity_id
    THEN [e |-> e, result |-> Str("invalid", " Entity not found")]
    ELSE [e |-> [e EXCEPT !.cd.interact = INTERACT_COOLDOWN], result |-> OK]

_execute_interact(e, args) ==
    IF e.cd.interact > 0 THEN [e |-> e, result |-> Str("cooldown", "")]
    ELSE IF ~\E ent \in Entities : ent.id = args.entity_id
    THEN [e |-> e, result |-> Str("invalid", " Entity not found")]
    ELSE
    LET ent == CHOOSE en \in Entities : en.id = args.entity_id IN
    IF Dist2(ent.x - centerx(e.rect), ent.y - centery(e.rect))
         > INTERACT_DISTANCE * INTERACT_DISTANCE
    THEN [e |-> e, result |-> Str("blocked", "too_far")]
    ELSE [e |-> [e EXCEPT !.cd.interact = INTERACT_COOLDOWN], result |-> OK]

\* engine_state["characters"]: the NPC itself, the other NPC and the player;
\* the Player class has no add_item
CharacterNames == {SelfName, TargetName, PlayerName}
CharCenter(name, e) ==
    CASE name = SelfName -> [x |-> centerx(e.rect), y |-> centery(e.rect)]
      [] name = TargetName -> [x |-> RectCenterX(TargetRect), y |-> RectCenterY(TargetRect)]
      [] name = PlayerName -> [x |-> RectCenterX(PlayerRect), y |-> RectCenterY(PlayerRect)]

_execute_transfer_item(e, args) ==
    IF args.entity_id \notin CharacterNames
    THEN [e |-> e, result |-> Str("invalid", " Character not found")]
    ELSE
    LET c == CharCenter(args.entity_id, e)
        rem == remove_item(e.inv, args.item_id, 1)
        e1 == [e EXCEPT !.inv = rem.inv]
    IN
    IF Dist2(c.x - centerx(e.rect), c.y - centery(e.rect))
         > INTERACT_DISTANCE * INTERACT_DISTANCE
    THEN [e |-> e, result |-> Str("blocked", "too_far")]
    ELSE IF has_item(e.inv, args.item_id) = 0
    THEN [e |-> e, result |-> Str("invalid", " Item not in inventory")]
    ELSE IF rem.removed <= 0
    THEN [e |-> e1, result |-> Str("invalid", " Transfer failed")]
    ELSE IF args.entity_id = PlayerName
    THEN [e |-> e1, result |-> Str("raise", " 'Player' object has no attribute 'add_item'")]
    ELSE IF args.entity_id = SelfName
    THEN LET back == add_item(e1.inv, args.item_id, rem.removed) IN
         IF back.ok THEN [e |-> [e1 EXCEPT !.inv = back.inv], result |-> OK]
         ELSE [e |-> [e1 EXCEPT !.inv = add_item(e1.inv, args.item_id, rem.removed).inv],
               result |-> Str("blocked", "inventory_full")]
    ELSE LET given == add_item(e1.tinv, args.item_id, rem.removed) IN
         IF given.ok THEN [e |-> [e1 EXCEPT !.tinv = given.inv], result |-> OK]
         ELSE [e |-> [e1 EXCEPT !.inv = add_item(e1.inv, args.item_id, rem.removed).inv],
               result |-> Str("blocked", "inventory_full")]

execute_action(e, action) ==
    CASE action.action = "say" -> _execute_say(e, action.args)
      [] action.action = "move" ->
            _execute_move_dir(e, action.args.direction, action.args.distance)
      [] action.action = "move_to" -> _execute_move_to(e, action.args)
      [] action.action = "interact" -> _execute_interact(e, action.args)
      [] action.action = "transfer_item" -> _execute_transfer_item(e, action.args)
      [] OTHER -> [e |-> e, result |-> Str("invalid", " Unknown action")]

----------------------------------------------------------------------------
(* The replies the LLM client may hand back: [error, raw] of decide()     *)

EmptyArgs == [k \in {} |-> 0]
Raw(kind, keys, action, argsDict, args) ==
    [kind |-> kind, keys |-> keys, action |-> action, argsDict |-> argsDict,
     args |-> args]
Obj(action, args) == Raw("object", {"action", "args"}, action, TRUE, args)

MalformedReplies ==
    { Raw("text", {}, "", TRUE, EmptyArgs),
      Raw("array", {}, "", TRUE, EmptyArgs),
      Obj("fly", EmptyArgs) }

ActionReplies ==
    { Obj("say", [text |-> "Hello!"]),
      Obj("move", [direction |-> "E", distance |-> 5]),
      Obj("move", [direction |-> "E", distance |-> 3]),
      Obj("move", [direction |-> "W", distance |-> 1]),
      Obj("move_to", [x |-> 1, y |-> 0]),
      Obj("move_to", [x |-> 1, y |-> 1]),
      Obj("interact", [entity_id |-> "door_1"]),
      Obj("interact", [entity_id |-> "ghost"]),
      Obj("transfer_item", [entity_id |-> TargetName, item_id |-> "iron_sword"]),
      Obj("transfer_item", [entity_id |-> PlayerName, item_id |-> "iron_sword"]) }

RawReplies == MalformedReplies \cup ActionReplies

Replies ==
    { [error |-> Str("request_failed", " Max retries exceeded"),
       raw |-> Raw("text", {}, "", TRUE, EmptyArgs)] }
    \cup { [error |-> Str("", ""), raw |-> r] : r \in RawReplies }

----------------------------------------------------------------------------
(* NPCController.npc_decision_tick *)

\* the idle interval is applied without looking at the idle flag
should_make_decision_flag_ignored(current_time, spoke, player_nearby) ==
    IF spoke THEN TRUE
    ELSE IF active_movement # "none" /\ movement_steps_remaining > 0
    THEN current_time - last_decision_time >= CONTINUE_INTERVAL
    ELSE IF player_nearby
    THEN current_time - last_decision_time >= decision_interval * 8
    ELSE FALSE

should_make_decision(current_time, spoke, player_nearby) ==
    IF spoke THEN TRUE
    ELSE IF active_movement # "none" /\ movement_steps_remaining > 0
    THEN current_time - last_decision_time >= CONTINUE_INTERVAL
    ELSE IF ~idle_behavior_enabled THEN FALSE
    ELSE IF player_nearby /\ idle_behavior_enabled
    THEN current_time - last_decision_time >= decision_interval * 8
    ELSE FALSE

\* lines 91-97: the player is within 200 px of the NPC
PlayerNearby(hasPlayer) ==
    /\ hasPlayer
    /\ Dist2(RectCenterX(PlayerRect) - centerx(npc_rect),
             RectCenterY(PlayerRect) - centery(npc_rect))
         < NEARBY_DISTANCE * NEARBY_DISTANCE

\* the backoff is never applied
InBackoff_never(current_time) == FALSE

\* lines 104-106: the tick is skipped because of too many errors
InBackoff(current_time) ==
    /\ consecutive_errors >= max_consecutive_errors
    /\ current_time - last_decision_time < error_backoff_time

\* the counter is not reset once the backoff has elapsed
ErrorsAfterGate_kept == consecutive_errors

\* line 108: the counter the decision proceeds with
ErrorsAfterGate == 
    IF consecutive_errors >= max_consecutive_errors THEN 0 ELSE consecutive_errors

\* the cooldowns are reduced by the absolute time, not by the elapsed time
CooldownsAfterUpdate_absolute(current_time) ==
    [move |-> Max(0, cooldowns.move - current_time),
     interact |-> Max(0, cooldowns.interact - current_time)]

\* the cooldowns are not clamped at 0
CooldownsAfterUpdate_unclamped(current_time) ==
    LET dt == IF last_decision_time > 0 THEN current_time - last_decision_time ELSE 0
    IN  [move |-> cooldowns.move - dt,
         interact |-> cooldowns.interact - dt]

\* lines 111-113
CooldownsAfterUpdate(current_time) ==
    LET dt == IF last_decision_time > 0 THEN current_time - last_decision_time ELSE 0
    IN  [move |-> Max(0, cooldowns.move - dt),
         interact |-> Max(0, cooldowns.interact - dt)]

\* an active sequence is never continued
ContinuationDue_never == FALSE

\* line 117
ContinuationDue == active_movement # "none" /\ movement_steps_remaining > 0

\* every result but ok counts as an error
ErrorsAfterResult_all_but_ok(errors, result) ==
    IF result = OK THEN 0 ELSE errors + 1

\* only a parse_error counts as an error
ErrorsAfterResult_parse_only(errors, result) ==
    IF ~startswith(result, "parse_error") THEN 0 ELSE errors + 1

\* lines 130-133, 146-149, 204-207
ErrorsAfterResult(errors, result) ==
    IF ~startswith(result, "invalid") /\ ~startswith(result, "parse_error")
    THEN 0 ELSE errors + 1

Engine(cd) ==
    [rect |-> npc_rect, speech |-> speech_text, inv |-> npc_inventory,
     tinv |-> target_inventory, cd |-> cd, am |-> active_movement,
     target |-> movement_target, steps |-> movement_steps_remaining,
     dir |-> movement_direction]

Outcome(e, result, errs, llm, act) ==
    [e |-> e, result |-> result, errors |-> errs, llm |-> llm, act |-> act]

\* the direction argument of the move a tick runs, for the record
MoveDirection(reply) ==
    IF ContinuationDue
    THEN IF active_movement = "move_dir" THEN movement_direction ELSE "none"
    ELSE IF parse_action(reply.raw).action.action = "move"
    THEN reply.raw.args.direction ELSE "none"

\* the distance argument of the move the LLM issued, for the record
MoveDistance(d, reply) ==
    IF d.act = "move" /\ d.llm = 1 THEN reply.raw.args.distance ELSE 0

\* the tile argument of the move_to the LLM issued, for the record
MoveToTile(d, reply) ==
    IF d.act = "move_to" /\ d.llm = 1
    THEN Target(reply.raw.args.x, reply.raw.args.y) ELSE NoTarget

\* the item argument of the transfer_item the LLM issued, for the record
TransferredItem(d, reply) ==
    IF d.act = "transfer_item" THEN reply.raw.args.item_id ELSE "none"

\* the entity argument of the interact the LLM issued, for the record
InteractEntity(d, reply) ==
    IF d.act = "interact" THEN reply.raw.args.entity_id ELSE "none"

\* what decide() returned, for the record
ReplyKind(reply) ==
    IF reply.error # Str("", "") THEN "error" ELSE reply.raw.kind

\* lines 211-216: an exception leaves the try block
Raised(e, msg, errors, llm, act) ==
    Outcome(e, Str("decision_error", msg), errors + 1, llm, act)

\* lines 126-135, 142-151: c is what the continuation step yielded
Continued(c, errors, act) ==
    Outcome(c.e, c.result, ErrorsAfterResult(errors, c.result), 0, act)

\* lines 196-209: x is what execute_action yielded
Executed(x, errors, act) ==
    IF startswith(x.result, "raise") THEN Raised(x.e, x.result.rest, errors, 1, act)
    ELSE Outcome(x.e, x.result, ErrorsAfterResult(errors, x.result), 1, act)

\* lines 186-209
Parsed(e0, parsed, errors) ==
    IF parsed.error # Str("", "") THEN Outcome(e0, parsed.error, errors + 1, 1, "none")
    ELSE Executed(execute_action(e0, parsed.action), errors, parsed.action.action)

\* the try block, lines 115-216: [e, result, errors, llm, act]
TryBlock(e0, errors, hasPlayer, reply) ==
    IF ContinuationDue /\ active_movement = "move_dir"
    THEN Continued(_execute_move_dir(e0, movement_direction, 10), errors, "move")
    ELSE IF ContinuationDue /\ active_movement = "move_to"
    THEN Continued(_continue_move_to(e0), errors, "continue_move_to")
    ELSE IF ~hasPlayer THEN Raised(e0, " 'player'", errors, 0, "none")
    ELSE IF reply.error # Str("", "") THEN Outcome(e0, reply.error, errors + 1, 1, "none")
    ELSE Parsed(e0, parse_action(reply.raw), errors)

Decide(current_time, hasPlayer, reply) ==
    TryBlock(Engine(CooldownsAfterUpdate(current_time)), ErrorsAfterGate,
             hasPlayer, reply)

\* the state a deciding tick leaves, d being the outcome of Decide
Decided(d, current_time, reply) ==
    /\ ret' = d.result
    /\ executed_direction' = (IF d.act = "move" THEN MoveDirection(reply) ELSE "none")
    /\ llm_reply_kind' = (IF d.llm = 1 THEN ReplyKind(reply) ELSE "none")
    /\ executed_distance' = MoveDistance(d, reply)
    /\ executed_tile' = MoveToTile(d, reply)
    /\ executed_item' = TransferredItem(d, reply)
    /\ executed_entity' = InteractEntity(d, reply)
    /\ llm_calls' = d.llm
    /\ actions_executed' = (IF d.act = "none" THEN 0 ELSE 1)
    /\ executed_action' = d.act
    /\ npc_rect' = d.e.rect
    /\ speech_text' = d.e.speech
    /\ npc_inventory' = d.e.inv
    /\ target_inventory' = d.e.tinv
    /\ cooldowns' = d.e.cd
    /\ active_movement' = d.e.am
    /\ movement_target' = d.e.target
    /\ movement_steps_remaining' = d.e.steps
    /\ movement_direction' = d.e.dir
    /\ last_result' = d.result
    /\ last_decision_time' = current_time
    /\ consecutive_errors' = d.errors
    /\ move_ok_time' = IF d.act = "move" /\ d.result = OK
                       THEN current_time ELSE move_ok_time

Tick(current_time, spoke, hasPlayer, reply) ==
    /\ clock' = current_time
    /\ player_spoke' = spoke
    /\ UNCHANGED idle_behavior_enabled
    /\ UNCHANGED shopkeeperVars
    /\ IF \/ ~should_make_decision(current_time, spoke, PlayerNearby(hasPlayer))
          \/ InBackoff(current_time)
       THEN /\ ret' = None
            /\ llm_calls' = 0
            /\ actions_executed' = 0
            /\ executed_action' = "none"
            /\ executed_direction' = "none"
            /\ llm_reply_kind' = "none"
            /\ executed_distance' = 0
            /\ executed_tile' = NoTarget
            /\ executed_item' = "none"
            /\ executed_entity' = "none"
            /\ UNCHANGED <<npc_rect, speech_text, npc_inventory, target_inventory,
                           cooldowns, last_result, last_decision_time,
                           consecutive_errors, active_movement, movement_target,
                           movement_steps_remaining, movement_direction,
                           move_ok_time>>
       ELSE Decided(Decide(current_time, hasPlayer, reply), current_time, reply)

----------------------------------------------------------------------------

\* the times at which the engine may call the tick, in ms: a wall clock, so
\* no tick is stamped 0, the value last_decision_time holds before the first
\* decision
Times == {1000, 1100, 1300, 3300}

InitialNpcInventory ==
    [i \in 1..NpcInvSize |-> IF i = 1 THEN Slot("iron_sword", 2) ELSE Empty]
InitialTargetInventories ==
    { [i \in 1..TargetInvSize |-> Empty] }

\* the grid of the navigator, in tiles: HierarchicalNavigator(grid_width,
\* grid_height)
grid_width == 6
grid_height == 4
NavTiles == (0..(grid_width - 1)) \X (0..(grid_height - 1))

\* no set_portal_open call, no find_path call yet
NoPortalCall == [portal_id |-> -1, is_open |-> TRUE]
NoQuery == [start |-> <<0, 0>>, goal |-> <<0, 0>>]
NoResponse == [ok |-> FALSE, reason |-> "", waypoints |-> <<>>]

InitFrom(idle, inv, tinv) ==
    /\ npc_rect = [x |-> 8, y |-> 0]
    /\ speech_text = ""
    /\ npc_inventory = inv
    /\ target_inventory = tinv
    /\ cooldowns = [move |-> 0, interact |-> 0]
    /\ last_result = None
    /\ last_decision_time = 0
    /\ consecutive_errors = 0
    /\ active_movement = "none"
    /\ movement_target = NoTarget
    /\ movement_steps_remaining = 0
    /\ movement_direction = "none"
    /\ idle_behavior_enabled = idle
    /\ clock = 0
    /\ player_spoke = FALSE
    /\ ret = None
    /\ llm_calls = 0
    /\ actions_executed = 0
    /\ executed_action = "none"
    /\ executed_direction = "none"
    /\ llm_reply_kind = "none"
    /\ executed_distance = 0
    /\ executed_tile = NoTarget
    /\ executed_item = "none"
    /\ executed_entity = "none"
    /\ move_ok_time = -1
    /\ waiting_for_llm = FALSE
    /\ llm_request_id = 0
    /\ pending_reaction = ""
    /\ reaction_timer = 0
    /\ shopkeeper_speech_text = ""
    /\ speech_timer = 0
    /\ worker_threads = {}
    /\ response_queue = <<>>
    /\ player_speech_text = 0
    /\ player_speech_timer = 0
    /\ last_player_speech = 0
    /\ last_player_speech_time = 0
    /\ utterances = 0
    /\ last_said_sent = [u \in 1..MaxUtterances |-> 0]
    /\ conversation_history = <<>>
    /\ appended = <<>>
    /\ decide_pc = "idle"
    /\ decide_attempt = 0
    /\ http_log = <<>>
    /\ decide_result = [response |-> <<>>, error |-> Str("", "")]
    /\ slept = 0
    /\ last_raw_text = <<>>
    /\ last_parsed = [action |-> [action |-> <<>>, args |-> <<>>],
                      error |-> Str("", ""), extra_fields |-> <<>>]
    /\ parse_called = FALSE
    /\ serialised_from = [action |-> <<>>, args |-> <<>>]
    /\ process_hash_order = <<>>
    /\ obs_npc = [x |-> 410, y |-> 260]
    /\ obs_player = [x |-> 414, y |-> 464]
    /\ obs_walls = ShopWalls
    /\ obs_entities = {}
    /\ ascii_grid = <<>>
    /\ nav_walls = {}
    /\ walkable_grid = [t \in NavTiles |-> FALSE]
    /\ tile_to_region = <<>>
    /\ portals = <<>>
    /\ last_portal_call = NoPortalCall
    /\ path_query = NoQuery
    /\ path_response = NoResponse

InitWith(idle) ==
    \E tinv \in InitialTargetInventories :
        InitFrom(idle, InitialNpcInventory, tinv)

\* the controller as constructed: idle behaviour is off
Init == InitWith(FALSE)

\* the tick gets past should_make_decision and the error backoff
Decides(current_time, spoke, hasPlayer) ==
    /\ should_make_decision(current_time, spoke, PlayerNearby(hasPlayer))
    /\ ~InBackoff(current_time)

AnyReply == CHOOSE r \in Replies : TRUE

\* a tick that returns None at the gate
TickSkipped ==
    \E t \in Times, spoke \in BOOLEAN, hasPlayer \in BOOLEAN :
        /\ t >= clock
        /\ ~Decides(t, spoke, hasPlayer)
        /\ Tick(t, spoke, hasPlayer, AnyReply)
        /\ UNCHANGED hostVars
        /\ UNCHANGED pureVars

\* a tick that continues the active movement sequence
TickContinuation ==
    \E t \in Times, spoke \in BOOLEAN :
        /\ t >= clock
        /\ Decides(t, spoke, TRUE)
        /\ ContinuationDue
        /\ Tick(t, spoke, TRUE, AnyReply)
        /\ UNCHANGED hostVars
        /\ UNCHANGED pureVars

\* a tick that consults the LLM
TickLLM ==
    \E t \in Times, spoke \in BOOLEAN :
        /\ t >= clock
        /\ Decides(t, spoke, TRUE)
        /\ ~ContinuationDue
        /\ \E reply \in Replies : Tick(t, spoke, TRUE, reply)
        /\ UNCHANGED hostVars
        /\ UNCHANGED pureVars

\* a deciding tick whose engine_state has no "player"
TickMissingPlayer ==
    \E t \in Times, spoke \in BOOLEAN :
        /\ t >= clock
        /\ Decides(t, spoke, FALSE)
        /\ ~ContinuationDue
        /\ Tick(t, spoke, FALSE, AnyReply)
        /\ UNCHANGED hostVars
        /\ UNCHANGED pureVars

Next ==
    \/ TickSkipped
    \/ TickContinuation
    \/ TickLLM
    \/ TickMissingPlayer

Spec == Init /\ [][Next]_vars

----------------------------------------------------------------------------
(* The gate on its own: idle behaviour may have been enabled, and the ticks *)
(* reach past the idle interval of decision_interval * 8 ms                  *)

IdleTimes == {1000, 1300, 35400}

IdleReplies ==
    { r \in Replies :
        \/ r.raw.kind = "text"
        \/ r.raw.action = "say"
        \/ r.raw.action = "move" /\ r.raw.args.direction = "E" }

InitIdle == \E idle \in BOOLEAN : InitWith(idle)

TickIdle ==
    \E t \in IdleTimes, spoke \in BOOLEAN, hasPlayer \in BOOLEAN, reply \in IdleReplies :
        /\ t >= clock
        /\ Tick(t, spoke, hasPlayer, reply)
        /\ UNCHANGED hostVars
        /\ UNCHANGED pureVars

NextIdle == TickIdle

SpecIdle == InitIdle /\ [][NextIdle]_vars

----------------------------------------------------------------------------
(* transfer_item on its own: the inventories the characters may hold when  *)
(* the LLM asks for a transfer, full ones included                          *)

TransferSlots ==
    { Empty, Slot("iron_sword", 1), Slot("iron_sword", 2), Slot("rope", 1) }

TransferNpcInventories == [1..NpcInvSize -> TransferSlots]

TransferTargetInventories == [1..TargetInvSize -> {Empty, Slot("torch", 1)}]

TransferReplies ==
    { [error |-> Str("", ""), raw |-> r] :
        r \in { Obj("transfer_item", [entity_id |-> TargetName, item_id |-> "iron_sword"]),
                Obj("transfer_item", [entity_id |-> TargetName, item_id |-> "rope"]),
                Obj("transfer_item", [entity_id |-> TargetName, item_id |-> "torch"]),
                Obj("transfer_item", [entity_id |-> "Nobody", item_id |-> "rope"]) } }

InitTransfer ==
    \E inv \in TransferNpcInventories, tinv \in TransferTargetInventories :
        InitFrom(FALSE, inv, tinv)

TickTransfer ==
    \E t \in Times, reply \in TransferReplies :
        /\ t >= clock
        /\ Tick(t, TRUE, TRUE, reply)
        /\ UNCHANGED hostVars
        /\ UNCHANGED pureVars

NextTransfer == TickTransfer

SpecTransfer == InitTransfer /\ [][NextTransfer]_vars

----------------------------------------------------------------------------
(* The standalone game: the shopkeeper asks the LLM on a worker thread *)

reaction_delay == 1000
speech_duration == 3000

\* how many requests a run may issue
MaxRequests == 3

\* frame times handed to ai_update, in ms
FrameTimes == {500, 1000}

\* what the player may say within hearing distance
Utterances == {"hello", "check inventory"}

\* what make_request puts on the queue: the model's cleaned answer, or one of
\* the fallbacks of a failed request
AiResponses == {"Welcome to my shop!", "I'm a bit distracted right now."}

max_history_length == 6

\* the first max_history_length entries are kept instead of the latest
add_to_conversation_history_keeps_oldest(history, role, message) ==
    IF Len(history) + 1 > max_history_length
    THEN SubSeq(Append(history, [role |-> role, message |-> message]),
                1, max_history_length)
    ELSE Append(history, [role |-> role, message |-> message])

\* NPC.add_to_conversation_history: append, then keep the latest
\* max_history_length entries (history[-max_history_length:])
add_to_conversation_history(history, role, message) ==
    IF Len(history) + 1 > max_history_length
    THEN SubSeq(Append(history, [role |-> role, message |-> message]),
                Len(history) + 2 - max_history_length, Len(history) + 1)
    ELSE Append(history, [role |-> role, message |-> message])

\* the guard of react_to_speech that leaves without asking the LLM
ReactionBusy_ignores_waiting ==
    \/ shopkeeper_speech_text # ""
    \/ pending_reaction # ""

ReactionBusy ==
    \/ shopkeeper_speech_text # ""
    \/ pending_reaction # ""
    \/ waiting_for_llm

\* NPC.react_to_speech with an llm_client attached
react_to_speech(message) ==
    /\ UNCHANGED <<shopkeeper_speech_text, speech_timer, response_queue>>
    /\ IF message = "check inventory"
       THEN /\ pending_reaction' = "You have: health_potion, gold_coin"
            /\ reaction_timer' = 0
            /\ UNCHANGED <<waiting_for_llm, llm_request_id, worker_threads,
                           conversation_history>>
       ELSE IF ReactionBusy
       THEN UNCHANGED <<pending_reaction, reaction_timer, waiting_for_llm,
                        llm_request_id, worker_threads, conversation_history>>
       ELSE /\ waiting_for_llm' = TRUE
            /\ llm_request_id' = llm_request_id + 1
            /\ conversation_history' =
                   add_to_conversation_history(conversation_history,
                                               "player", message)
            \* send_message_async starts one thread for the request
            /\ worker_threads' = worker_threads \cup {llm_request_id + 1}
            /\ UNCHANGED <<pending_reaction, reaction_timer>>

\* a failed request ends its thread without an answer
make_request_silent_on_failure(callback_id, ai_response) ==
    /\ response_queue' =
           IF ai_response = "I'm a bit distracted right now."
           THEN response_queue
           ELSE Append(response_queue,
                       [id |-> callback_id, response |-> ai_response])
    /\ worker_threads' = worker_threads \ {callback_id}
    /\ UNCHANGED <<waiting_for_llm, llm_request_id, pending_reaction,
                   reaction_timer, shopkeeper_speech_text, speech_timer,
                   conversation_history>>

\* the thread of send_message_async ends: whatever the request did, it puts
\* one answer for its callback_id on the queue
make_request(callback_id, ai_response) ==
    /\ response_queue' = Append(response_queue,
                                [id |-> callback_id, response |-> ai_response])
    /\ worker_threads' = worker_threads \ {callback_id}
    /\ UNCHANGED <<waiting_for_llm, llm_request_id, pending_reaction,
                   reaction_timer, shopkeeper_speech_text, speech_timer,
                   conversation_history>>

\* the index of the first queued answer to request_id, 0 when there is none
FirstAnswer(responses, request_id) ==
    IF \E i \in 1..Len(responses) : responses[i].id = request_id
    THEN CHOOSE i \in 1..Len(responses) :
            /\ responses[i].id = request_id
            /\ \A j \in 1..(i - 1) : responses[j].id # request_id
    ELSE 0

\* Character.update: the speech bubble expires
SpeechAfterUpdate(dt) ==
    IF shopkeeper_speech_text # "" /\ speech_timer + dt >= speech_duration
    THEN [text |-> "", timer |-> 0]
    ELSE IF shopkeeper_speech_text # ""
    THEN [text |-> shopkeeper_speech_text, timer |-> speech_timer + dt]
    ELSE [text |-> shopkeeper_speech_text, timer |-> speech_timer]

\* pending_reaction once ai_update has looked through the drained answers
ReactionAfterResponses(k) ==
    IF k > 0 THEN response_queue[k].response ELSE pending_reaction

\* NPC.ai_update: update, take the answer to the latest request, speak the
\* pending reaction once it has waited reaction_delay
ai_update(dt, spoken, k, reaction) ==
    \* get_responses empties the queue
    /\ response_queue' = <<>>
    /\ waiting_for_llm' = IF k > 0 THEN FALSE ELSE waiting_for_llm
    /\ IF reaction # "" /\ reaction_timer + dt >= reaction_delay
       THEN /\ conversation_history' =
                   add_to_conversation_history(conversation_history,
                                               "shopkeeper", reaction)
            /\ shopkeeper_speech_text' = reaction
            /\ speech_timer' = 0
            /\ pending_reaction' = ""
            /\ reaction_timer' = 0
       ELSE /\ UNCHANGED conversation_history
            /\ shopkeeper_speech_text' = spoken.text
            /\ speech_timer' = spoken.timer
            /\ pending_reaction' = reaction
            /\ reaction_timer' = IF reaction # "" THEN reaction_timer + dt
                                 ELSE reaction_timer
    /\ UNCHANGED <<llm_request_id, worker_threads>>

InitAsync == InitWith(FALSE)

PlayerSays ==
    \E message \in Utterances :
        /\ llm_request_id < MaxRequests
        /\ react_to_speech(message)
        /\ UNCHANGED controllerVars
        /\ UNCHANGED hostVars
        /\ UNCHANGED pureVars

RequestEnds ==
    \E callback_id \in worker_threads, ai_response \in AiResponses :
        /\ make_request(callback_id, ai_response)
        /\ UNCHANGED controllerVars
        /\ UNCHANGED hostVars
        /\ UNCHANGED pureVars

Frame ==
    \E dt \in FrameTimes :
        /\ ai_update(dt, SpeechAfterUpdate(dt),
                     FirstAnswer(response_queue, llm_request_id),
                     ReactionAfterResponses(
                         FirstAnswer(response_queue, llm_request_id)))
        /\ UNCHANGED controllerVars
        /\ UNCHANGED hostVars
        /\ UNCHANGED pureVars

NextAsync ==
    \/ PlayerSays
    \/ RequestEnds
    \/ Frame

SpecAsync == InitAsync /\ [][NextAsync]_vars

\* the same while the game runs: the request of a thread returns or times out
\* (requests.post has a timeout), and the game loop goes on calling ai_update
SpecAsyncFair ==
    /\ InitAsync /\ [][NextAsync]_vars
    /\ WF_vars(RequestEnds)
    /\ WF_vars(Frame)

----------------------------------------------------------------------------
(* The game around the controller: the player speaks, the speech bubble    *)
(* stays for player.speech_duration, and LLMDrivenNPC.update turns what the *)
(* NPC heard into player_spoke for one tick                                 *)

PLAYER_SPEECH_DURATION == 3000
HEARING_DISTANCE == 300
RECENT_SPEECH == 500

\* time.time() * 1000 when the game starts: far beyond the idle interval
HostEpoch == 100000

\* the run ends this long after the start
HostRunTime == 33600

\* the time of a frame, in ms: clock.get_time()
HostFrameTimes == {400, 32000}

\* the LLM answers in words, or the request fails
HostReplies ==
    { r \in Replies :
        \/ r.error.head = "request_failed"
        \/ r.raw.action = "say" }

\* Player.notify_nearby_characters: the NPC is within hearing distance
Hears ==
    Dist2(centerx(npc_rect) - RectCenterX(PlayerRect),
          centery(npc_rect) - RectCenterY(PlayerRect))
      <= HEARING_DISTANCE * HEARING_DISTANCE

\* Player.update: the speech bubble after dt more ms, as <<text, timer>>
PlayerSpeechAfter(text, timer, dt) ==
    IF text = 0 THEN <<text, timer>>
    ELSE IF timer + dt >= PLAYER_SPEECH_DURATION THEN <<0, 0>>
    ELSE <<text, timer + dt>>

\* LLMDrivenNPC.update, lines 278-280: something was heard in the last 500 ms
HeardRecently(heard, heard_time, current_time) ==
    /\ heard # 0
    /\ current_time - heard_time < RECENT_SPEECH

\* what was heard stays in last_player_speech after the tick
HeardAfterUpdate_kept(heard, heard_time, current_time) == heard

\* LLMDrivenNPC.update, line 282: what was heard is cleared once it is passed on
HeardAfterUpdate(heard, heard_time, current_time) ==
    IF HeardRecently(heard, heard_time, current_time) THEN 0 ELSE heard

\* the observations sent with each utterance, after a tick that called the
\* LLM llm times while the bubble showed shown (observation.py, lines 152-155)
SentAfter(llm, shown) ==
    IF llm > 0 /\ shown # 0
    THEN [last_said_sent EXCEPT ![shown] = @ + 1]
    ELSE last_said_sent

\* one frame of the game loop: handle_events (the player may speak),
\* player.update, then LLMDrivenNPC.update with its decision tick. The
\* animation and the NPC's own bubble timer do not enter the decision.
HostFrame(current_time, dt, says, heard, heard_time, bubble, reply) ==
    /\ utterances' = IF says THEN utterances + 1 ELSE utterances
    /\ player_speech_text' = bubble[1]
    /\ player_speech_timer' = bubble[2]
    /\ last_player_speech' = HeardAfterUpdate(heard, heard_time, current_time)
    /\ last_player_speech_time' = heard_time
    /\ Tick(current_time, HeardRecently(heard, heard_time, current_time),
            TRUE, reply)
    /\ last_said_sent' = SentAfter(llm_calls', bubble[1])

\* the wall clock at the latest frame
HostNow == IF clock = 0 THEN HostEpoch ELSE clock

InitHost == \E idle \in BOOLEAN : InitWith(idle)

\* a frame in which the player says nothing
QuietFrame ==
    \E dt \in HostFrameTimes, reply \in HostReplies :
        /\ HostNow + dt <= HostEpoch + HostRunTime
        /\ HostFrame(HostNow + dt, dt, FALSE,
                     last_player_speech, last_player_speech_time,
                     PlayerSpeechAfter(player_speech_text, player_speech_timer, dt),
                     reply)
        /\ UNCHANGED pureVars

\* a frame in which the player says something new
SpeakingFrame ==
    \E dt \in HostFrameTimes, reply \in HostReplies :
        /\ HostNow + dt <= HostEpoch + HostRunTime
        /\ utterances < MaxUtterances
        /\ HostFrame(HostNow + dt, dt, TRUE,
                     IF Hears THEN utterances + 1 ELSE last_player_speech,
                     IF Hears THEN HostNow + dt ELSE last_player_speech_time,
                     PlayerSpeechAfter(utterances + 1, 0, dt),
                     reply)
        /\ UNCHANGED pureVars

NextHost ==
    \/ QuietFrame
    \/ SpeakingFrame

SpecHost == InitHost /\ [][NextHost]_vars

----------------------------------------------------------------------------
(* The same game loop while the NPC walks: the LLM may answer with a move, *)
(* and the frames are short enough for the player to speak during the      *)
(* sequence. pygame runs the loop for as long as the game runs.             *)

\* the run ends this long after the start
SpeechRunTime == 1200

\* the time of a frame, in ms
SpeechFrameTimes == {200, 400}

\* the LLM answers in words or with a move, or the request fails
SpeechReplies ==
    { r \in Replies :
        \/ r.error.head = "request_failed"
        \/ r.raw.action \in {"say", "move"} }

\* a frame of the walking game in which the player says nothing
QuietWalkFrame ==
    \E dt \in SpeechFrameTimes, reply \in SpeechReplies :
        /\ HostNow + dt <= HostEpoch + SpeechRunTime
        /\ HostFrame(HostNow + dt, dt, FALSE,
                     last_player_speech, last_player_speech_time,
                     PlayerSpeechAfter(player_speech_text, player_speech_timer, dt),
                     reply)
        /\ UNCHANGED pureVars

\* a frame of the walking game in which the player says something new
SpeakingWalkFrame ==
    \E dt \in SpeechFrameTimes, reply \in SpeechReplies :
        /\ HostNow + dt <= HostEpoch + SpeechRunTime
        /\ utterances < MaxUtterances
        /\ HostFrame(HostNow + dt, dt, TRUE,
                     IF Hears THEN utterances + 1 ELSE last_player_speech,
                     IF Hears THEN HostNow + dt ELSE last_player_speech_time,
                     PlayerSpeechAfter(utterances + 1, 0, dt),
                     reply)
        /\ UNCHANGED pureVars

NextSpeech ==
    \/ QuietWalkFrame
    \/ SpeakingWalkFrame

\* the game loop never stops taking frames while the game runs
SpecSpeech == Init /\ [][NextSpeech]_vars /\ WF_vars(NextSpeech)

----------------------------------------------------------------------------
(* The dialogue history on its own: any entries, appended in any order *)

\* how many entries a run appends
MaxAppended == 8

HistoryEntries ==
    { [role |-> "player", message |-> "hello"],
      [role |-> "player", message |-> "what do you sell?"],
      [role |-> "shopkeeper", message |-> "Welcome to my shop!"] }

InitHistory == InitWith(FALSE)

AppendEntry ==
    \E e \in HistoryEntries :
        /\ Len(appended) < MaxAppended
        /\ conversation_history' =
              add_to_conversation_history(conversation_history, e.role, e.message)
        /\ appended' = Append(appended, e)
        /\ UNCHANGED controllerVars
        /\ UNCHANGED hostVars
        /\ UNCHANGED <<waiting_for_llm, llm_request_id, pending_reaction,
                       reaction_timer, shopkeeper_speech_text, speech_timer,
                       worker_threads, response_queue>>
        /\ UNCHANGED <<clientVars, parserVars, gridVars, navVars>>

NextHistory == AppendEntry

SpecHistory == InitHistory /\ [][NextHistory]_vars

----------------------------------------------------------------------------
(* Texts.  A text is a sequence of characters, a character a string of     *)
(* length one; find gives 0 where Python gives -1.                          *)

Whitespace == {" ", "\n", "\t"}

RECURSIVE lstrip(_)
lstrip(text) ==
    IF text # <<>> /\ Head(text) \in Whitespace THEN lstrip(Tail(text)) ELSE text

RECURSIVE rstrip(_)
rstrip(text) ==
    IF text # <<>> /\ text[Len(text)] \in Whitespace
    THEN rstrip(SubSeq(text, 1, Len(text) - 1))
    ELSE text

strip(text) == rstrip(lstrip(text))

text_startswith(text, prefix) ==
    Len(text) >= Len(prefix) /\ SubSeq(text, 1, Len(prefix)) = prefix

text_endswith(text, suffix) ==
    /\ Len(text) >= Len(suffix)
    /\ SubSeq(text, Len(text) - Len(suffix) + 1, Len(text)) = suffix

RECURSIVE find_from(_, _, _)
find_from(text, sub, i) ==
    IF i + Len(sub) - 1 > Len(text) THEN 0
    ELSE IF SubSeq(text, i, i + Len(sub) - 1) = sub THEN i
    ELSE find_from(text, sub, i + 1)

find(text, sub) == find_from(text, sub, 1)

RECURSIVE split(_, _)
split(text, sep) ==
    IF find(text, sep) = 0 THEN <<text>>
    ELSE <<SubSeq(text, 1, find(text, sep) - 1)>>
         \o split(SubSeq(text, find(text, sep) + Len(sep), Len(text)), sep)

\* the backquote, written ^ in the texts of this module
Backquote == "^"

Fence == <<Backquote, Backquote, Backquote>>

----------------------------------------------------------------------------
(* LLMClient: _extract_json, _make_request and the retry loop of decide *)

max_retries == 2
SLEEP_STEP == 500

\* a part between code fences, stripped and without a leading "json"
FencePart(part) ==
    IF text_startswith(strip(part), <<"j", "s", "o", "n">>)
    THEN strip(SubSeq(strip(part), 5, Len(strip(part))))
    ELSE strip(part)

\* lines 131-137: the first part that starts with { and ends with }, or <<>>
RECURSIVE FencedObject(_)
FencedObject(parts) ==
    IF parts = <<>> THEN <<>>
    ELSE IF /\ text_startswith(FencePart(Head(parts)), <<"{">>)
            /\ text_endswith(FencePart(Head(parts)), <<"}">>)
    THEN FencePart(Head(parts))
    ELSE FencedObject(Tail(parts))

\* lines 148-155: the index at which the brace count comes back to 0, or 0
RECURSIVE closing_brace(_, _, _)
closing_brace(text, i, brace_count) ==
    IF i > Len(text) THEN 0
    ELSE IF text[i] = "{" THEN closing_brace(text, i + 1, brace_count + 1)
    ELSE IF text[i] = "}" /\ brace_count = 1 THEN i
    ELSE IF text[i] = "}" THEN closing_brace(text, i + 1, brace_count - 1)
    ELSE closing_brace(text, i + 1, brace_count)

\* LLMClient._extract_json
_extract_json(text) ==
    IF find(text, Fence) > 0 /\ FencedObject(split(text, Fence)) # <<>>
    THEN FencedObject(split(text, Fence))
    ELSE IF find(text, <<"{">>) = 0 THEN strip(text)
    ELSE IF closing_brace(text, find(text, <<"{">>), 0) > 0
    THEN SubSeq(text, find(text, <<"{">>),
                closing_brace(text, find(text, <<"{">>), 0))
    ELSE strip(text)

\* what requests.post may come back with: it raises (a timeout, a refused
\* connection), or there is a response with a status and a body
HttpContents ==
    { <<>>,
      <<" ", "\n">>,
      <<"{", "}">>,
      <<"o", "k", " ", "{", "}", "\n">> }

HttpResponses ==
    { [raises |-> TRUE, status |-> 0, choices |-> FALSE, content |-> <<>>] }
    \cup { [raises |-> FALSE, status |-> s, choices |-> c, content |-> t] :
              s \in {200, 500}, c \in BOOLEAN, t \in HttpContents }

Returned(value) == [raised |-> FALSE, value |-> value, reason |-> ""]
Raises(reason) == [raised |-> TRUE, value |-> <<>>, reason |-> reason]

\* the status of the response is not looked at
_make_request_ignores_status(resp) ==
    IF resp.raises THEN Raises(" timed out")
    ELSE IF ~resp.choices THEN Raises(" No choices in response")
    ELSE IF strip(resp.content) = <<>> THEN Raises(" Empty response content")
    ELSE Returned(_extract_json(strip(resp.content)))

\* LLMClient._make_request: the content of the reply, or an exception
_make_request(resp) ==
    IF resp.raises THEN Raises(" timed out")
    ELSE IF resp.status # 200 THEN Raises(" HTTP error")
    ELSE IF ~resp.choices THEN Raises(" No choices in response")
    ELSE IF strip(resp.content) = <<>> THEN Raises(" Empty response content")
    ELSE Returned(_extract_json(strip(resp.content)))

NoError == Str("", "")

\* decide is called: lines 46-69 build the messages
decide_called ==
    /\ decide_pc \in {"idle", "returned"}
    /\ decide_pc' = "requesting"
    /\ decide_attempt' = 0
    /\ http_log' = <<>>
    /\ decide_result' = [response |-> <<>>, error |-> NoError]
    /\ slept' = 0

\* one pass of the loop of decide, lines 74-88: resp is what the request
\* came back with, r what _make_request made of it
decide_attempts(resp, r) ==
    /\ decide_pc = "requesting"
    /\ http_log' = Append(http_log, resp)
    /\ IF ~r.raised /\ r.value # <<>>
       THEN /\ decide_pc' = "returned"
            /\ decide_result' = [response |-> r.value, error |-> NoError]
            /\ UNCHANGED <<decide_attempt, slept>>
       ELSE IF decide_attempt < max_retries
       THEN /\ decide_pc' = "requesting"
            /\ decide_attempt' = decide_attempt + 1
            /\ slept' = IF r.raised THEN slept + SLEEP_STEP * (decide_attempt + 1)
                        ELSE slept
            /\ UNCHANGED decide_result
       ELSE /\ decide_pc' = "returned"
            /\ decide_result' =
                  [response |-> <<>>,
                   error |-> Str("request_failed",
                                 IF r.raised THEN r.reason
                                 ELSE " Max retries exceeded")]
            /\ UNCHANGED <<decide_attempt, slept>>

InitClient == InitWith(FALSE)

DecideCalled ==
    /\ decide_called
    /\ UNCHANGED <<controllerVars, hostVars, shopkeeperVars, historyVars,
                   parserVars, gridVars, navVars>>

RequestAnswered ==
    \E resp \in HttpResponses :
        /\ decide_attempts(resp, _make_request(resp))
        /\ UNCHANGED <<controllerVars, hostVars, shopkeeperVars, historyVars,
                   parserVars, gridVars, navVars>>

NextClient ==
    \/ DecideCalled
    \/ RequestAnswered

SpecClient == InitClient /\ [][NextClient]_vars

----------------------------------------------------------------------------
(* json.loads on a text.  A decoded value is a record tagged by its type:  *)
(* a string holds its characters, a float its digits and how many of them   *)
(* follow the point, an object a function from its keys to its values.      *)
(* Exponents and the escapes \u, \b, \f and \r are not decoded: no text of  *)
(* the model has them.                                                       *)

\* the largest and the smallest of a set of positive numbers, 0 if it is empty
Max_of(S) == IF S = {} THEN 0 ELSE CHOOSE m \in S : \A k \in S : k <= m
Min_of(S) == IF S = {} THEN 0 ELSE CHOOSE m \in S : \A k \in S : m <= k

Quote == "\""
Backslash == "\\"

JStr(s) == [t |-> "str", s |-> s]
JInt(n) == [t |-> "int", n |-> n]
JFloat(num, scale) == [t |-> "float", num |-> num, scale |-> scale]
JObj(f) == [t |-> "obj", f |-> f]
JArr(items) == [t |-> "arr", items |-> items]
JBool(b) == [t |-> "bool", b |-> b]
JNull == [t |-> "null"]

\* a decoding step: the value and the index after it, or a failure
Decoded(v, i) == [ok |-> TRUE, v |-> v, i |-> i]
DecodeFails == [ok |-> FALSE, v |-> JNull, i |-> 0]

Digits == {"0", "1", "2", "3", "4", "5", "6", "7", "8", "9"}

DigitValue(c) ==
    CASE c = "0" -> 0 [] c = "1" -> 1 [] c = "2" -> 2 [] c = "3" -> 3
      [] c = "4" -> 4 [] c = "5" -> 5 [] c = "6" -> 6 [] c = "7" -> 7
      [] c = "8" -> 8 [] c = "9" -> 9

RECURSIVE skip_whitespace(_, _)
skip_whitespace(text, i) ==
    IF i <= Len(text) /\ text[i] \in Whitespace
    THEN skip_whitespace(text, i + 1)
    ELSE i

\* how many backslashes stand right before position p, from position i on
backslashes_before(text, i, p) ==
    p - 1 - Max(i - 1, Max_of({k \in i..(p - 1) : text[k] # Backslash}))

\* the character at p is the second of an escape: an odd run precedes it
escaped(text, i, p) == backslashes_before(text, i, p) % 2 = 1

\* the quote that closes the string literal whose characters start at i,
\* 0 if there is none: the first quote that is not escaped
closing_quote(text, i) ==
    Min_of({j \in i..Len(text) : text[j] = Quote /\ ~escaped(text, i, j)})

\* JSON allows the escape and no control character stands unescaped
string_well_formed(text, i, j) ==
    \A p \in i..(j - 1) :
        IF escaped(text, i, p) THEN text[p] \in {Quote, Backslash, "/", "n", "t"}
        ELSE text[p] \notin {"\n", "\t"}

\* the characters of text[lo..hi] with the escapes replaced
RECURSIVE unescape(_, _, _, _)
unescape(text, i, lo, hi) ==
    IF lo > hi THEN <<>>
    ELSE IF lo < hi
    THEN unescape(text, i, lo, (lo + hi) \div 2)
         \o unescape(text, i, (lo + hi) \div 2 + 1, hi)
    ELSE IF escaped(text, i, lo)
    THEN (IF text[lo] = "n" THEN <<"\n">>
          ELSE IF text[lo] = "t" THEN <<"\t">>
          ELSE <<text[lo]>>)
    ELSE IF text[lo] = Backslash THEN <<>>
    ELSE <<text[lo]>>

\* the string literal whose characters start at i, up to the closing quote
decode_string(text, i) ==
    IF closing_quote(text, i) = 0 THEN DecodeFails
    ELSE IF ~string_well_formed(text, i, closing_quote(text, i)) THEN DecodeFails
    ELSE Decoded(JStr(unescape(text, i, i, closing_quote(text, i) - 1)),
                 closing_quote(text, i) + 1)

\* the run of digits from i on: [n, i, count]
RECURSIVE decode_digits(_, _, _, _)
decode_digits(text, i, n, count) ==
    IF i <= Len(text) /\ text[i] \in Digits
    THEN decode_digits(text, i + 1, n * 10 + DigitValue(text[i]), count + 1)
    ELSE [n |-> n, i |-> i, count |-> count]

\* the fraction after the integer part whole, if there is one
decode_fraction(text, sign, whole, frac) ==
    IF frac.count = 0 THEN DecodeFails
    ELSE Decoded(JFloat(sign * frac.n, frac.count), frac.i)

decode_integer(text, sign, first, whole) ==
    IF whole.count = 0 THEN DecodeFails
    ELSE IF whole.count > 1 /\ text[first] = "0" THEN DecodeFails
    ELSE IF whole.i <= Len(text) /\ text[whole.i] = "."
    THEN decode_fraction(text, sign, whole,
                         decode_digits(text, whole.i + 1, whole.n, 0))
    ELSE IF whole.i <= Len(text) /\ text[whole.i] \in {"e", "E"} THEN DecodeFails
    ELSE Decoded(JInt(sign * whole.n), whole.i)

decode_number(text, i) ==
    IF text[i] = "-"
    THEN decode_integer(text, -1, i + 1, decode_digits(text, i + 1, 0, 0))
    ELSE decode_integer(text, 1, i, decode_digits(text, i, 0, 0))

decode_literal(text, i, word, v) ==
    IF /\ i + Len(word) - 1 <= Len(text)
       /\ SubSeq(text, i, i + Len(word) - 1) = word
    THEN Decoded(v, i + Len(word))
    ELSE DecodeFails

RECURSIVE decode_value(_, _)
RECURSIVE decode_members(_, _, _)
RECURSIVE decode_items(_, _, _)

\* after a member: a comma and the next member, or the closing brace
members_next(text, i, f) ==
    IF i > Len(text) THEN DecodeFails
    ELSE IF text[i] = "," THEN decode_members(text, skip_whitespace(text, i + 1), f)
    ELSE IF text[i] = "}" THEN Decoded(JObj(f), i + 1)
    ELSE DecodeFails

\* a key that comes again replaces the earlier value
members_value(text, key, r, f) ==
    IF ~r.ok THEN DecodeFails
    ELSE members_next(text, skip_whitespace(text, r.i), (key :> r.v) @@ f)

members_colon(text, key, i, f) ==
    IF i > Len(text) \/ text[i] # ":" THEN DecodeFails
    ELSE members_value(text, key,
                       decode_value(text, skip_whitespace(text, i + 1)), f)

members_key(text, k, f) ==
    IF ~k.ok THEN DecodeFails
    ELSE members_colon(text, k.v.s, skip_whitespace(text, k.i), f)

decode_members(text, i, f) ==
    IF i > Len(text) \/ text[i] # Quote THEN DecodeFails
    ELSE members_key(text, decode_string(text, i + 1), f)

items_next(text, i, items) ==
    IF i > Len(text) THEN DecodeFails
    ELSE IF text[i] = "," THEN decode_items(text, skip_whitespace(text, i + 1), items)
    ELSE IF text[i] = "]" THEN Decoded(JArr(items), i + 1)
    ELSE DecodeFails

items_value(text, r, items) ==
    IF ~r.ok THEN DecodeFails
    ELSE items_next(text, skip_whitespace(text, r.i), Append(items, r.v))

decode_items(text, i, items) == items_value(text, decode_value(text, i), items)

NoMembers == [k \in {} |-> JNull]

decode_object(text, i) ==
    IF i <= Len(text) /\ text[i] = "}" THEN Decoded(JObj(NoMembers), i + 1)
    ELSE decode_members(text, i, NoMembers)

decode_array(text, i) ==
    IF i <= Len(text) /\ text[i] = "]" THEN Decoded(JArr(<<>>), i + 1)
    ELSE decode_items(text, i, <<>>)

decode_value(text, i) ==
    IF i > Len(text) THEN DecodeFails
    ELSE IF text[i] = "{" THEN decode_object(text, skip_whitespace(text, i + 1))
    ELSE IF text[i] = "[" THEN decode_array(text, skip_whitespace(text, i + 1))
    ELSE IF text[i] = Quote THEN decode_string(text, i + 1)
    ELSE IF text[i] = "-" \/ text[i] \in Digits THEN decode_number(text, i)
    ELSE IF text[i] = "t" THEN decode_literal(text, i, <<"t", "r", "u", "e">>, JBool(TRUE))
    ELSE IF text[i] = "f"
    THEN decode_literal(text, i, <<"f", "a", "l", "s", "e">>, JBool(FALSE))
    ELSE IF text[i] = "n" THEN decode_literal(text, i, <<"n", "u", "l", "l">>, JNull)
    ELSE DecodeFails

\* the whole text is one value, with nothing but whitespace around it
json_document(text, r) ==
    IF r.ok /\ skip_whitespace(text, r.i) > Len(text) THEN r ELSE DecodeFails

json_loads(text) ==
    json_document(text, decode_value(text, skip_whitespace(text, 1)))

----------------------------------------------------------------------------
(* parse_action on the characters of the reply: the cleaning of lines      *)
(* 60-75, json.loads, and the pydantic models of lines 11-43.  Of pydantic: *)
(* a str field takes a string only, a float field an integer or a float, an *)
(* int field an integer or a float without a fraction, a key the model does  *)
(* not define is ignored (the Args models do not forbid extras), and the     *)
(* first error is the one of the first field defined.  The lax conversions   *)
(* of a numeric string or a boolean to a number are not modelled: no text of *)
(* the model has them.                                                        *)

KeyAction == <<"a", "c", "t", "i", "o", "n">>
KeyArgs == <<"a", "r", "g", "s">>
KeyText == <<"t", "e", "x", "t">>
KeyDirection == <<"d", "i", "r", "e", "c", "t", "i", "o", "n">>
KeyDistance == <<"d", "i", "s", "t", "a", "n", "c", "e">>
KeyX == <<"x">>
KeyY == <<"y">>
KeyEntityId == <<"e", "n", "t", "i", "t", "y", "_", "i", "d">>
KeyItemId == <<"i", "t", "e", "m", "_", "i", "d">>

NameSay == <<"s", "a", "y">>
NameMove == <<"m", "o", "v", "e">>
NameMoveTo == <<"m", "o", "v", "e", "_", "t", "o">>
NameInteract == <<"i", "n", "t", "e", "r", "a", "c", "t">>
NameTransferItem ==
    <<"t", "r", "a", "n", "s", "f", "e", "r", "_", "i", "t", "e", "m">>

count(text, c) == Cardinality({i \in 1..Len(text) : text[i] = c})

RECURSIVE join(_, _)
join(lines, sep) ==
    IF lines = <<>> THEN <<>>
    ELSE IF Len(lines) = 1 THEN lines[1]
    ELSE lines[1] \o sep \o join(Tail(lines), sep)

\* lines 64-65: the index of the first line from i on that starts with {
\* once stripped, 0 if there is none
RECURSIVE first_json_line(_, _)
first_json_line(lines, i) ==
    IF i > Len(lines) THEN 0
    ELSE IF text_startswith(strip(lines[i]), <<"{">>) THEN i
    ELSE first_json_line(lines, i + 1)

\* lines 67-73: the lines from j on, up to the one that has a { and brings
\* the brace count back to 0, or up to the last line
RECURSIVE json_lines(_, _, _)
json_lines(lines, j, brace_count) ==
    IF j > Len(lines) THEN <<>>
    ELSE IF /\ brace_count + count(lines[j], "{") - count(lines[j], "}") = 0
            /\ count(lines[j], "{") > 0
    THEN <<lines[j]>>
    ELSE <<lines[j]>>
         \o json_lines(lines, j + 1,
                brace_count + count(lines[j], "{") - count(lines[j], "}"))

fenced_text(lines) ==
    join(json_lines(lines, first_json_line(lines, 1), 0), <<"\n">>)

\* lines 60-75
cleaned_text(raw_text) ==
    IF /\ text_startswith(strip(raw_text), Fence)
       /\ first_json_line(split(strip(raw_text), <<"\n">>), 1) > 0
    THEN fenced_text(split(strip(raw_text), <<"\n">>))
    ELSE strip(raw_text)

RECURSIVE Pow10(_)
Pow10(n) == IF n = 0 THEN 1 ELSE 10 * Pow10(n - 1)

\* a float: num / 10^scale with no zero at the end of the fraction
RECURSIVE Decimal(_, _)
Decimal(num, scale) ==
    IF scale > 0 /\ num % 10 = 0 THEN Decimal(num \div 10, scale - 1)
    ELSE [num |-> num, scale |-> scale]

\* what a model class yields: the validated args, or the ValidationError's
\* first error with its field (loc) and message
Validated(args) == [ok |-> TRUE, args |-> args, field |-> "", msg |-> ""]
ValidationError(field, msg) ==
    [ok |-> FALSE, args |-> <<>>, field |-> field, msg |-> msg]

\* a str field: the message of its error, "" if there is none
str_error(args_data, key) ==
    IF key \notin DOMAIN args_data THEN "Field required"
    ELSE IF args_data[key].t # "str" THEN "Input should be a valid string"
    ELSE ""

\* a float field
float_error(args_data, key) ==
    IF key \notin DOMAIN args_data THEN "Field required"
    ELSE IF args_data[key].t \notin {"int", "float"}
    THEN "Input should be a valid number"
    ELSE ""

float_value(v) ==
    IF v.t = "int" THEN Decimal(v.n, 0) ELSE Decimal(v.num, v.scale)

\* an int field
int_error(args_data, key) ==
    IF key \notin DOMAIN args_data THEN "Field required"
    ELSE IF args_data[key].t = "int" THEN ""
    ELSE IF args_data[key].t # "float" THEN "Input should be a valid integer"
    ELSE IF float_value(args_data[key]).scale > 0
    THEN "Input should be a valid integer, got a number with a fractional part"
    ELSE ""

int_value(v) == IF v.t = "int" THEN v.n ELSE float_value(v).num

\* text: str, min_length=1, max_length=100
SayArgs(args_data) ==
    IF str_error(args_data, KeyText) # ""
    THEN ValidationError("text", str_error(args_data, KeyText))
    ELSE IF Len(args_data[KeyText].s) < 1
    THEN ValidationError("text", "String should have at least 1 character")
    ELSE IF Len(args_data[KeyText].s) > 100
    THEN ValidationError("text", "String should have at most 100 characters")
    ELSE Validated([text |-> args_data[KeyText].s])

direction_error(args_data) ==
    IF KeyDirection \notin DOMAIN args_data THEN "Field required"
    ELSE IF \/ args_data[KeyDirection].t # "str"
            \/ args_data[KeyDirection].s \notin {<<"N">>, <<"E">>, <<"S">>, <<"W">>}
    THEN "Input should be 'N', 'E', 'S' or 'W'"
    ELSE ""

\* ge=0.1, le=5.0
distance_error(args_data) ==
    IF float_error(args_data, KeyDistance) # ""
    THEN float_error(args_data, KeyDistance)
    ELSE IF float_value(args_data[KeyDistance]).num * 10
            < Pow10(float_value(args_data[KeyDistance]).scale)
    THEN "Input should be greater than or equal to 0.1"
    ELSE IF float_value(args_data[KeyDistance]).num
            > 5 * Pow10(float_value(args_data[KeyDistance]).scale)
    THEN "Input should be less than or equal to 5"
    ELSE ""

MoveArgs(args_data) ==
    IF direction_error(args_data) # ""
    THEN ValidationError("direction", direction_error(args_data))
    ELSE IF distance_error(args_data) # ""
    THEN ValidationError("distance", distance_error(args_data))
    ELSE Validated([direction |-> args_data[KeyDirection].s,
                    distance |-> float_value(args_data[KeyDistance])])

MoveToArgs(args_data) ==
    IF int_error(args_data, KeyX) # ""
    THEN ValidationError("x", int_error(args_data, KeyX))
    ELSE IF int_error(args_data, KeyY) # ""
    THEN ValidationError("y", int_error(args_data, KeyY))
    ELSE Validated([x |-> int_value(args_data[KeyX]),
                    y |-> int_value(args_data[KeyY])])

InteractArgs(args_data) ==
    IF str_error(args_data, KeyEntityId) # ""
    THEN ValidationError("entity_id", str_error(args_data, KeyEntityId))
    ELSE Validated([entity_id |-> args_data[KeyEntityId].s])

TransferItemArgs(args_data) ==
    IF str_error(args_data, KeyEntityId) # ""
    THEN ValidationError("entity_id", str_error(args_data, KeyEntityId))
    ELSE IF str_error(args_data, KeyItemId) # ""
    THEN ValidationError("item_id", str_error(args_data, KeyItemId))
    ELSE Validated([entity_id |-> args_data[KeyEntityId].s,
                    item_id |-> args_data[KeyItemId].s])

ActionTypes ==
    {NameSay, NameMove, NameMoveTo, NameInteract, NameTransferItem}

\* lines 97-106: the Args class of the action type
ArgsOf(action_type, args_data) ==
    IF action_type = NameSay THEN SayArgs(args_data)
    ELSE IF action_type = NameMove THEN MoveArgs(args_data)
    ELSE IF action_type = NameMoveTo THEN MoveToArgs(args_data)
    ELSE IF action_type = NameInteract THEN InteractArgs(args_data)
    ELSE TransferItemArgs(args_data)

\* the keys of a set in the order its iteration gives them: the order of
\* the hashes, which the interpreter seeds when the process starts
RECURSIVE in_hash_order(_, _)
in_hash_order(names, hash_order) ==
    IF hash_order = <<>> THEN <<>>
    ELSE IF Head(hash_order) \in names
    THEN <<Head(hash_order)>> \o in_hash_order(names, Tail(hash_order))
    ELSE in_hash_order(names, Tail(hash_order))

NoAction == [action |-> <<>>, args |-> <<>>]

\* what parse_action returns: error = Str("", "") with an action;
\* extra_fields are the names the error message lists
Accepted(action_type, args) ==
    [action |-> [action |-> action_type, args |-> args],
     error |-> Str("", ""), extra_fields |-> <<>>]
Rejected(error) == [action |-> NoAction, error |-> error, extra_fields |-> <<>>]
RejectedExtra(names) ==
    [action |-> NoAction, error |-> Str("invalid", " Extra fields not allowed"),
     extra_fields |-> names]

\* lines 110-118, with the args the model class validated
parse_validated(data, args, hash_order) ==
    IF ~args.ok
    THEN Rejected(Str("invalid", " " \o args.field \o " - " \o args.msg))
    ELSE IF DOMAIN data \ {KeyAction, KeyArgs} # {}
    THEN RejectedExtra(in_hash_order(DOMAIN data \ {KeyAction, KeyArgs},
                                     hash_order))
    ELSE Accepted(data[KeyAction].s, args.args)

\* lines 84-108 and the handlers of lines 120-128, on the decoded object
parse_object(data, hash_order) ==
    IF KeyAction \notin DOMAIN data
    THEN Rejected(Str("invalid", " Missing 'action' field"))
    ELSE IF KeyArgs \notin DOMAIN data
    THEN Rejected(Str("invalid", " Missing 'args' field"))
    ELSE IF data[KeyAction].t # "str" \/ data[KeyAction].s \notin ActionTypes
    THEN Rejected(Str("invalid", " Unknown action type"))
    ELSE IF data[KeyArgs].t # "obj"
    THEN Rejected(Str("parse_error", " argument after ** must be a mapping"))
    ELSE parse_validated(data,
                         ArgsOf(data[KeyAction].s, data[KeyArgs].f), hash_order)

\* a text that does not decode is turned down without a word
parse_decoded_silent(decoded, hash_order) ==
    IF ~decoded.ok THEN Rejected(Str("", ""))
    ELSE IF decoded.v.t # "obj"
    THEN Rejected(Str("parse_error", " Root must be JSON object"))
    ELSE parse_object(decoded.v.f, hash_order)

\* lines 78-85, on what json.loads made of the text
parse_decoded(decoded, hash_order) ==
    IF ~decoded.ok THEN Rejected(Str("parse_error", " Invalid JSON"))
    ELSE IF decoded.v.t # "obj"
    THEN Rejected(Str("parse_error", " Root must be JSON object"))
    ELSE parse_object(decoded.v.f, hash_order)

\* parse_action(raw_text) in a process whose hashes order names as hash_order
parse_action_text(raw_text, hash_order) ==
    parse_decoded(json_loads(cleaned_text(raw_text)), hash_order)

\* json.dumps of an action: {"action": ..., "args": {...}}, a string with
\* its quotes, backslashes, newlines and tabs escaped, a float as repr
\* writes it
DigitChar(d) ==
    CASE d = 0 -> "0" [] d = 1 -> "1" [] d = 2 -> "2" [] d = 3 -> "3"
      [] d = 4 -> "4" [] d = 5 -> "5" [] d = 6 -> "6" [] d = 7 -> "7"
      [] d = 8 -> "8" [] d = 9 -> "9"

RECURSIVE dumps_digits(_)
dumps_digits(n) ==
    IF n < 10 THEN <<DigitChar(n)>>
    ELSE dumps_digits(n \div 10) \o <<DigitChar(n % 10)>>

\* the last width digits of n, zeros in front
RECURSIVE dumps_fraction(_, _)
dumps_fraction(n, width) ==
    IF width = 0 THEN <<>>
    ELSE dumps_fraction(n \div 10, width - 1) \o <<DigitChar(n % 10)>>

dumps_int(n) ==
    IF n < 0 THEN <<"-">> \o dumps_digits(0 - n) ELSE dumps_digits(n)

dumps_float(d) ==
    (IF d.num < 0 THEN <<"-">> ELSE <<>>)
    \o dumps_digits(Abs(d.num) \div Pow10(d.scale)) \o <<".">>
    \o (IF d.scale = 0 THEN <<"0">>
        ELSE dumps_fraction(Abs(d.num) % Pow10(d.scale), d.scale))

\* a string written without escapes
dumps_chars_raw(text) == text

RECURSIVE dumps_chars(_)
dumps_chars(text) ==
    IF text = <<>> THEN <<>>
    ELSE (CASE Head(text) = Quote -> <<Backslash, Quote>>
            [] Head(text) = Backslash -> <<Backslash, Backslash>>
            [] Head(text) = "\n" -> <<Backslash, "n">>
            [] Head(text) = "\t" -> <<Backslash, "t">>
            [] OTHER -> <<Head(text)>>)
         \o dumps_chars(Tail(text))

dumps_string(text) == <<Quote>> \o dumps_chars(text) \o <<Quote>>

dumps_member(key, value) == dumps_string(key) \o <<":", " ">> \o value

dumps_args(a) ==
    <<"{">>
    \o (IF a.action = NameSay THEN dumps_member(KeyText, dumps_string(a.args.text))
        ELSE IF a.action = NameMove
        THEN dumps_member(KeyDirection, dumps_string(a.args.direction))
             \o <<",", " ">>
             \o dumps_member(KeyDistance, dumps_float(a.args.distance))
        ELSE IF a.action = NameMoveTo
        THEN dumps_member(KeyX, dumps_int(a.args.x)) \o <<",", " ">>
             \o dumps_member(KeyY, dumps_int(a.args.y))
        ELSE IF a.action = NameInteract
        THEN dumps_member(KeyEntityId, dumps_string(a.args.entity_id))
        ELSE dumps_member(KeyEntityId, dumps_string(a.args.entity_id))
             \o <<",", " ">>
             \o dumps_member(KeyItemId, dumps_string(a.args.item_id)))
    \o <<"}">>

serialise(a) ==
    <<"{">> \o dumps_member(KeyAction, dumps_string(a.action)) \o <<",", " ">>
    \o dumps_member(KeyArgs, dumps_args(a)) \o <<"}">>

RECURSIVE Repeat(_, _)
Repeat(text, n) == IF n = 0 THEN <<>> ELSE text \o Repeat(text, n - 1)

\* texts a say may carry: one character, one hundred, and characters that
\* JSON escapes
SayTexts ==
    { <<"H", "i">>,
      <<"!">>,
      Repeat(<<"a", "b", "c", " ", "{">>, 20),
      <<"a", Quote, "b", Backslash, "c", "\n", "}", "\t">> }

\* distances within [0.1, 5.0]
Distances ==
    { Decimal(1, 1), Decimal(5, 1), Decimal(1, 0), Decimal(225, 2),
      Decimal(5, 0) }

Coordinates == {0 - 3, 0, 12}

Ids == { <<>>, <<"d", "o", "o", "r", "_", "1">> }

\* the actions the models of lines 11-36 accept
ValidActions ==
    { [action |-> NameSay, args |-> [text |-> t]] : t \in SayTexts }
    \cup { [action |-> NameMove, args |-> [direction |-> <<d>>, distance |-> n]] :
              d \in Directions, n \in Distances }
    \cup { [action |-> NameMoveTo, args |-> [x |-> x, y |-> y]] :
              x \in Coordinates, y \in Coordinates }
    \cup { [action |-> NameInteract, args |-> [entity_id |-> e]] : e \in Ids }
    \cup { [action |-> NameTransferItem,
            args |-> [entity_id |-> e, item_id |-> i]] :
              e \in Ids, i \in Ids }

\* what the LLM may reply: objects of every action type with good and bad
\* arguments, with keys the schema does not have, and texts that are not
\* JSON objects
ReplyBodies ==
    { <<"{", Quote, "a", "c", "t", "i", "o", "n", Quote, ":", Quote, "s",
        "a", "y", Quote, ",", Quote, "a", "r", "g", "s", Quote, ":", "{",
        Quote, "t", "e", "x", "t", Quote, ":", Quote, "H", "e", "l", "l",
        "o", "!", Quote, "}", "}">>,
      <<"{", Quote, "a", "c", "t", "i", "o", "n", Quote, ":", " ", Quote,
        "m", "o", "v", "e", Quote, ",", " ", Quote, "a", "r", "g", "s",
        Quote, ":", " ", "{", Quote, "d", "i", "r", "e", "c", "t", "i",
        "o", "n", Quote, ":", " ", Quote, "N", Quote, ",", " ", Quote,
        "d", "i", "s", "t", "a", "n", "c", "e", Quote, ":", " ", "1", ".",
        "5", "}", "}">>,
      <<"{", Quote, "a", "c", "t", "i", "o", "n", Quote, ":", Quote, "m",
        "o", "v", "e", Quote, ",", Quote, "a", "r", "g", "s", Quote, ":",
        "{", Quote, "d", "i", "r", "e", "c", "t", "i", "o", "n", Quote,
        ":", Quote, "N", Quote, ",", Quote, "d", "i", "s", "t", "a", "n",
        "c", "e", Quote, ":", "0", ".", "0", "5", "}", "}">>,
      <<"{", Quote, "a", "c", "t", "i", "o", "n", Quote, ":", Quote, "m",
        "o", "v", "e", Quote, ",", Quote, "a", "r", "g", "s", Quote, ":",
        "{", Quote, "d", "i", "r", "e", "c", "t", "i", "o", "n", Quote,
        ":", Quote, "u", "p", Quote, ",", Quote, "d", "i", "s", "t", "a",
        "n", "c", "e", Quote, ":", "1", "}", "}">>,
      <<"{", Quote, "a", "c", "t", "i", "o", "n", Quote, ":", Quote, "m",
        "o", "v", "e", Quote, ",", Quote, "a", "r", "g", "s", Quote, ":",
        "{", Quote, "d", "i", "r", "e", "c", "t", "i", "o", "n", Quote,
        ":", Quote, "E", Quote, ",", Quote, "d", "i", "s", "t", "a", "n",
        "c", "e", Quote, ":", "5", ".", "0", "1", "}", "}">>,
      <<"{", Quote, "a", "c", "t", "i", "o", "n", Quote, ":", Quote, "m",
        "o", "v", "e", Quote, ",", Quote, "a", "r", "g", "s", Quote, ":",
        "{", Quote, "d", "i", "s", "t", "a", "n", "c", "e", Quote, ":",
        "1", "}", "}">>,
      <<"{", Quote, "a", "c", "t", "i", "o", "n", Quote, ":", Quote, "m",
        "o", "v", "e", "_", "t", "o", Quote, ",", Quote, "a", "r", "g",
        "s", Quote, ":", "{", Quote, "x", Quote, ":", "3", ",", Quote,
        "y", Quote, ":", "-", "2", ".", "0", "}", "}">>,
      <<"{", Quote, "a", "c", "t", "i", "o", "n", Quote, ":", Quote, "m",
        "o", "v", "e", "_", "t", "o", Quote, ",", Quote, "a", "r", "g",
        "s", Quote, ":", "{", Quote, "x", Quote, ":", "1", ".", "5", ",",
        Quote, "y", Quote, ":", "1", "}", "}">>,
      <<"{", Quote, "a", "c", "t", "i", "o", "n", Quote, ":", Quote, "m",
        "o", "v", "e", "_", "t", "o", Quote, ",", Quote, "a", "r", "g",
        "s", Quote, ":", "{", Quote, "x", Quote, ":", "n", "u", "l", "l",
        ",", Quote, "y", Quote, ":", "1", "}", "}">>,
      <<"{", Quote, "a", "c", "t", "i", "o", "n", Quote, ":", Quote, "i",
        "n", "t", "e", "r", "a", "c", "t", Quote, ",", Quote, "a", "r",
        "g", "s", Quote, ":", "{", Quote, "e", "n", "t", "i", "t", "y",
        "_", "i", "d", Quote, ":", Quote, "d", "o", "o", "r", "_", "1",
        Quote, "}", "}">>,
      <<"{", Quote, "a", "c", "t", "i", "o", "n", Quote, ":", Quote, "i",
        "n", "t", "e", "r", "a", "c", "t", Quote, ",", Quote, "a", "r",
        "g", "s", Quote, ":", "{", Quote, "e", "n", "t", "i", "t", "y",
        "_", "i", "d", Quote, ":", Quote, Quote, "}", "}">>,
      <<"{", Quote, "a", "c", "t", "i", "o", "n", Quote, ":", Quote, "i",
        "n", "t", "e", "r", "a", "c", "t", Quote, ",", Quote, "a", "r",
        "g", "s", Quote, ":", "{", Quote, "e", "n", "t", "i", "t", "y",
        "_", "i", "d", Quote, ":", "7", "}", "}">>,
      <<"{", Quote, "a", "c", "t", "i", "o", "n", Quote, ":", Quote, "t",
        "r", "a", "n", "s", "f", "e", "r", "_", "i", "t", "e", "m", Quote,
        ",", Quote, "a", "r", "g", "s", Quote, ":", "{", Quote, "e", "n",
        "t", "i", "t", "y", "_", "i", "d", Quote, ":", Quote, "p", "l",
        "a", "y", "e", "r", Quote, ",", Quote, "i", "t", "e", "m", "_",
        "i", "d", Quote, ":", Quote, Quote, "}", "}">>,
      <<"{", Quote, "a", "c", "t", "i", "o", "n", Quote, ":", Quote, "t",
        "r", "a", "n", "s", "f", "e", "r", "_", "i", "t", "e", "m", Quote,
        ",", Quote, "a", "r", "g", "s", Quote, ":", "{", Quote, "e", "n",
        "t", "i", "t", "y", "_", "i", "d", Quote, ":", Quote, Quote, ",",
        Quote, "i", "t", "e", "m", "_", "i", "d", Quote, ":", Quote, "p",
        "o", "t", "i", "o", "n", Quote, "}", "}">>,
      <<"{", Quote, "a", "c", "t", "i", "o", "n", Quote, ":", Quote, "t",
        "r", "a", "n", "s", "f", "e", "r", "_", "i", "t", "e", "m", Quote,
        ",", Quote, "a", "r", "g", "s", Quote, ":", "{", Quote, "e", "n",
        "t", "i", "t", "y", "_", "i", "d", Quote, ":", Quote, "p", "l",
        "a", "y", "e", "r", Quote, ",", Quote, "i", "t", "e", "m", "_",
        "i", "d", Quote, ":", Quote, "p", "o", "t", "i", "o", "n", Quote,
        "}", "}">>,
      <<"{", Quote, "a", "c", "t", "i", "o", "n", Quote, ":", Quote, "s",
        "a", "y", Quote, ",", Quote, "a", "r", "g", "s", Quote, ":", "{",
        Quote, "t", "e", "x", "t", Quote, ":", Quote, "H", "i", Quote,
        ",", Quote, "m", "o", "o", "d", Quote, ":", Quote, "c", "a", "l",
        "m", Quote, "}", "}">>,
      <<"{", Quote, "a", "c", "t", "i", "o", "n", Quote, ":", Quote, "m",
        "o", "v", "e", Quote, ",", Quote, "a", "r", "g", "s", Quote, ":",
        "{", Quote, "d", "i", "r", "e", "c", "t", "i", "o", "n", Quote,
        ":", Quote, "S", Quote, ",", Quote, "d", "i", "s", "t", "a", "n",
        "c", "e", Quote, ":", "2", ",", Quote, "s", "p", "e", "e", "d",
        Quote, ":", "9", "}", "}">>,
      <<"{", Quote, "a", "c", "t", "i", "o", "n", Quote, ":", Quote, "m",
        "o", "v", "e", "_", "t", "o", Quote, ",", Quote, "a", "r", "g",
        "s", Quote, ":", "{", Quote, "x", Quote, ":", "1", ",", Quote,
        "y", Quote, ":", "2", ",", Quote, "z", Quote, ":", "3", "}", "}">>,
      <<"{", Quote, "a", "c", "t", "i", "o", "n", Quote, ":", Quote, "i",
        "n", "t", "e", "r", "a", "c", "t", Quote, ",", Quote, "a", "r",
        "g", "s", Quote, ":", "{", Quote, "e", "n", "t", "i", "t", "y",
        "_", "i", "d", Quote, ":", Quote, "d", "o", "o", "r", "_", "1",
        Quote, ",", Quote, "f", "o", "r", "c", "e", Quote, ":", "t", "r",
        "u", "e", "}", "}">>,
      <<"{", Quote, "a", "c", "t", "i", "o", "n", Quote, ":", Quote, "t",
        "r", "a", "n", "s", "f", "e", "r", "_", "i", "t", "e", "m", Quote,
        ",", Quote, "a", "r", "g", "s", Quote, ":", "{", Quote, "e", "n",
        "t", "i", "t", "y", "_", "i", "d", Quote, ":", Quote, "p", "l",
        "a", "y", "e", "r", Quote, ",", Quote, "i", "t", "e", "m", "_",
        "i", "d", Quote, ":", Quote, "p", "o", "t", "i", "o", "n", Quote,
        ",", Quote, "q", "u", "a", "n", "t", "i", "t", "y", Quote, ":",
        "2", "}", "}">>,
      <<"{", Quote, "a", "c", "t", "i", "o", "n", Quote, ":", Quote, "s",
        "a", "y", Quote, ",", Quote, "a", "r", "g", "s", Quote, ":", "{",
        Quote, "t", "e", "x", "t", Quote, ":", Quote, "H", "i", Quote,
        "}", ",", Quote, "n", "o", "t", "e", Quote, ":", "1", "}">>,
      <<"{", Quote, "a", "c", "t", "i", "o", "n", Quote, ":", Quote, "s",
        "a", "y", Quote, ",", Quote, "a", "r", "g", "s", Quote, ":", "{",
        Quote, "t", "e", "x", "t", Quote, ":", Quote, "H", "i", Quote,
        "}", ",", Quote, "n", "o", "t", "e", Quote, ":", "1", ",", Quote,
        "e", "x", "t", "r", "a", Quote, ":", "2", "}">>,
      <<"{", Quote, "a", "c", "t", "i", "o", "n", Quote, ":", Quote, "s",
        "a", "y", Quote, ",", Quote, "a", "r", "g", "s", Quote, ":", "{",
        Quote, "t", "e", "x", "t", Quote, ":", Quote, Quote, "}", ",",
        Quote, "e", "x", "t", "r", "a", Quote, ":", "1", "}">>,
      <<"{", Quote, "a", "c", "t", "i", "o", "n", Quote, ":", Quote, "s",
        "a", "y", Quote, ",", Quote, "a", "r", "g", "s", Quote, ":", "[",
        "1", "]", "}">>,
      <<"{", Quote, "a", "c", "t", "i", "o", "n", Quote, ":", Quote, "f",
        "l", "y", Quote, ",", Quote, "a", "r", "g", "s", Quote, ":", "{",
        "}", "}">>,
      <<"{", Quote, "a", "c", "t", "i", "o", "n", Quote, ":", Quote, "S",
        "a", "y", Quote, ",", Quote, "a", "r", "g", "s", Quote, ":", "{",
        Quote, "t", "e", "x", "t", Quote, ":", Quote, "x", Quote, "}", "}">>,
      <<"{", Quote, "a", "c", "t", "i", "o", "n", Quote, ":", "1", ",",
        Quote, "a", "r", "g", "s", Quote, ":", "{", "}", "}">>,
      <<"{", Quote, "a", "r", "g", "s", Quote, ":", "{", Quote, "t", "e",
        "x", "t", Quote, ":", Quote, "x", Quote, "}", "}">>,
      <<"{", Quote, "a", "c", "t", "i", "o", "n", Quote, ":", Quote, "s",
        "a", "y", Quote, "}">>,
      <<"[", "]">>,
      <<"n", "u", "l", "l">>,
      <<>>,
      <<"n", "o", "t", " ", "j", "s", "o", "n">>,
      <<"{", Quote, "a", "c", "t", "i", "o", "n", Quote, ":", Quote, "s",
        "a", "y", Quote, ",", Quote, "a", "r", "g", "s", Quote, ":", "{",
        Quote, "t", "e", "x", "t", Quote, ":", Quote, "h", "e", "l", "l",
        "o", Quote, "}">>,
      <<"{", Quote, "a", "c", "t", "i", "o", "n", Quote, ":", Quote, "s",
        "a", "y", Quote, ",", Quote, "a", "r", "g", "s", Quote, ":", "{",
        Quote, "t", "e", "x", "t", Quote, ":", Quote, "a", "}", "b",
        Quote, "}", "}">>,
      <<"{", "\n", " ", Quote, "a", "c", "t", "i", "o", "n", Quote, ":",
        Quote, "s", "a", "y", Quote, ",", "\n", " ", Quote, "a", "r", "g",
        "s", Quote, ":", "{", Quote, "t", "e", "x", "t", Quote, ":",
        Quote, "H", "i", Quote, "}", "\n", "}">>,
      <<"{", Quote, "a", "c", "t", "i", "o", "n", Quote, ":", Quote, "s",
        "a", "y", Quote, ",", Quote, "a", "r", "g", "s", Quote, ":", "{",
        Quote, "t", "e", "x", "t", Quote, ":", Quote, "a", Backslash,
        Quote, "b", Backslash, Backslash, "c", Backslash, "n", Quote, "}",
        "}">>,
      <<"{", Quote, "a", "c", "t", "i", "o", "n", Quote, ":", Quote, "s",
        "a", "y", Quote, ",", Quote, "a", "r", "g", "s", Quote, ":", "{",
        Quote, "t", "e", "x", "t", Quote, ":", "n", "u", "l", "l", "}",
        "}">> }

\* what the LLM may put around the object: prose, a code fence, blank space
ReplyWrappers ==
    { <<<<>>,
        <<>>>>,
      <<<<"S", "u", "r", "e", ":", " ">>,
        <<>>>>,
      <<<<>>,
        <<" ", "o", "k">>>>,
      <<<<Backquote, Backquote, Backquote, "j", "s", "o", "n", "\n">>,
        <<"\n", Backquote, Backquote, Backquote>>>>,
      <<<<" ", "\n">>,
        <<"\n">>>> }

ReplyTexts ==
    { w[1] \o b \o w[2] : w \in ReplyWrappers, b \in ReplyBodies }

\* the orders in which a process may iterate over the names "extra" and "note"
HashOrders ==
    { << <<"e", "x", "t", "r", "a">>, <<"n", "o", "t", "e">> >>,
      << <<"n", "o", "t", "e">>, <<"e", "x", "t", "r", "a">> >> }

\* no process has started yet
InitParser == InitWith(FALSE)

NotParsed ==
    [action |-> NoAction, error |-> Str("", ""), extra_fields |-> <<>>]

\* the LLM replies: the text the controller will hand to parse_action
ReplyArrives ==
    /\ \E r \in ReplyTexts : last_raw_text' = r
    /\ serialised_from' = NoAction
    /\ last_parsed' = NotParsed
    /\ parse_called' = FALSE
    /\ UNCHANGED process_hash_order
    /\ UNCHANGED <<controllerVars, hostVars, shopkeeperVars, historyVars,
                   clientVars, gridVars, navVars>>

\* a valid action is serialised: the text will be handed to parse_action
ActionSerialised ==
    /\ \E a \in ValidActions :
          /\ serialised_from' = a
          /\ last_raw_text' = serialise(a)
    /\ last_parsed' = NotParsed
    /\ parse_called' = FALSE
    /\ UNCHANGED process_hash_order
    /\ UNCHANGED <<controllerVars, hostVars, shopkeeperVars, historyVars,
                   clientVars, gridVars, navVars>>

\* parse_action(raw_text), for the first time or once more
ParseCalled ==
    /\ process_hash_order \in HashOrders
    /\ last_parsed' = parse_action_text(last_raw_text, process_hash_order)
    /\ parse_called' = TRUE
    /\ UNCHANGED <<last_raw_text, serialised_from, process_hash_order>>
    /\ UNCHANGED <<controllerVars, hostVars, shopkeeperVars, historyVars,
                   clientVars, gridVars, navVars>>

\* the program is started, or started again: the interpreter seeds its
\* hashes anew, and the new process has not called parse_action yet; the
\* text at hand stays, so that a process may be given what another was given
ProcessStarts ==
    /\ \E o \in HashOrders : process_hash_order' = o
    /\ last_parsed' = NotParsed
    /\ parse_called' = FALSE
    /\ UNCHANGED <<last_raw_text, serialised_from>>
    /\ UNCHANGED <<controllerVars, hostVars, shopkeeperVars, historyVars,
                   clientVars, gridVars, navVars>>

NextParser == ReplyArrives \/ ActionSerialised \/ ParseCalled \/ ProcessStarts

SpecParser == InitParser /\ [][NextParser]_vars

----------------------------------------------------------------------------
(* build_observation: the 11 x 11 grid of tiles around the NPC *)

grid_size == 11

world_to_tile(world_x) == world_x \div TILE_SIZE
tile_to_world(tile_x) == tile_x * TILE_SIZE

rectangles_overlap(rect1, rect2) ==
    ~(\/ rect1.x + rect1.w <= rect2.x
      \/ rect2.x + rect2.w <= rect1.x
      \/ rect1.y + rect1.h <= rect2.y
      \/ rect2.y + rect2.h <= rect1.y)

\* line 85
tile_rect(tile_x, tile_y) ==
    Rect(tile_to_world(tile_x), tile_to_world(tile_y), TILE_SIZE, TILE_SIZE)

LowerChar(c) ==
    CASE c = "D" -> "d" [] c = "O" -> "o" [] c = "R" -> "r" [] OTHER -> c

lower(text) == [i \in 1..Len(text) |-> LowerChar(text[i])]

\* line 98: "door" in entity.get("id", "").lower()
is_door(entity) == find(lower(entity.id), <<"d", "o", "o", "r">>) > 0

\* lines 86-90
overlaps_wall(tile_x, tile_y, walls) ==
    \E wall \in walls : rectangles_overlap(tile_rect(tile_x, tile_y), wall)

\* lines 93-100
door_at(tile_x, tile_y, entities) ==
    \E entity \in entities :
        /\ world_to_tile(entity.x) = tile_x
        /\ world_to_tile(entity.y) = tile_y
        /\ is_door(entity)

\* lines 81-100: the wall first, then the door over whatever is there
tile_char(tile_x, tile_y, walls, entities) ==
    IF door_at(tile_x, tile_y, entities) THEN "D"
    ELSE IF overlaps_wall(tile_x, tile_y, walls) THEN "#"
    ELSE "."

\* lines 102-106: the player's tile, else the NPC's, else the tile itself
ascii_char(tile_x, tile_y, npc, player, walls, entities) ==
    IF tile_x = world_to_tile(player.x) /\ tile_y = world_to_tile(player.y)
    THEN "P"
    ELSE IF tile_x = world_to_tile(npc.x) /\ tile_y = world_to_tile(npc.y)
    THEN "N"
    ELSE tile_char(tile_x, tile_y, walls, entities)

\* lines 65-67
origin_tile(npc_tile) == npc_tile - grid_size \div 2

\* lines 73-111: the rows of the grid, row and col counted from 1
build_ascii_grid(npc, player, walls, entities) ==
    [row \in 1..grid_size |->
        [col \in 1..grid_size |->
            ascii_char(origin_tile(world_to_tile(npc.x)) + col - 1,
                       origin_tile(world_to_tile(npc.y)) + row - 1,
                       npc, player, walls, entities)]]

\* the walls of the game, and the wall of the integration's own example
WallSets == { ShopWalls, {Rect(300, 200, 200, 10)} }

\* where the shopkeeper (20 x 20, steps of 4 from (400, 250)) may stand in
\* the shop: the centre of its rect
NpcCentres ==
    { [x |-> x + NPC_WIDTH \div 2, y |-> y + NPC_HEIGHT \div 2] :
        x \in {312, 400, 468}, y \in {210, 250, 370} }

\* where the player (28 x 28, steps of 4 from (400, 450)) may stand
PlayerCentres ==
    { [x |-> x + (TILE_SIZE - 4) \div 2, y |-> y + (TILE_SIZE - 4) \div 2] :
        x \in {400, 432}, y \in {400, 450} }
    \cup { [x |-> 360 + (TILE_SIZE - 4) \div 2, y |-> 300 + (TILE_SIZE - 4) \div 2] }

\* the entities handed in: none, as the game does, or a door in the gap of
\* the bottom wall, next to it a chest
EntitySets ==
    { {},
      { [id |-> <<"d", "o", "o", "r", "_", "1">>, x |-> 400, y |-> 390],
        [id |-> <<"c", "h", "e", "s", "t", "_", "1">>, x |-> 330, y |-> 230] },
      { [id |-> <<"S", "h", "o", "p", "D", "o", "o", "r">>, x |-> 380, y |-> 390] } }

InitGrid == InitWith(FALSE)

\* the game moves on: the characters stand somewhere else, and the
\* observation built before is gone
WorldChanges ==
    /\ \E npc \in NpcCentres, player \in PlayerCentres :
          obs_npc' = npc /\ obs_player' = player
    /\ \E walls \in WallSets : obs_walls' = walls
    /\ \E entities \in EntitySets : obs_entities' = entities
    /\ ascii_grid' = <<>>
    /\ UNCHANGED <<controllerVars, hostVars, shopkeeperVars, historyVars,
                   clientVars, parserVars, navVars>>

\* build_observation(engine_state)
BuildObservation ==
    /\ ascii_grid' = build_ascii_grid(obs_npc, obs_player, obs_walls, obs_entities)
    /\ UNCHANGED <<obs_npc, obs_player, obs_walls, obs_entities>>
    /\ UNCHANGED <<controllerVars, hostVars, shopkeeperVars, historyVars,
                   clientVars, parserVars, navVars>>

NextGrid == WorldChanges \/ BuildObservation

SpecGrid == InitGrid /\ [][NextGrid]_vars

----------------------------------------------------------------------------
(* HierarchicalNavigator of src/npc/navigation.py on its own.  A tile is a  *)
(* pair <<x, y>>; a portal id "portal_k" is the number k; of a path only    *)
(* whether one was found is kept, so a waypoint list is a truth value and   *)
(* the costs, which decide between paths only, are left out.                *)

\* the tiles a wall blocks: the rectangle rounded out to whole tiles and
\* clipped to the grid
blocked_tiles(wall) ==
    LET start_x == Max_of({0, wall.x \div TILE_SIZE})
        end_x == Min_of({grid_width,
                         (wall.x + wall.w + TILE_SIZE - 1) \div TILE_SIZE})
        start_y == Max_of({0, wall.y \div TILE_SIZE})
        end_y == Min_of({grid_height,
                         (wall.y + wall.h + TILE_SIZE - 1) \div TILE_SIZE})
    IN  (start_x..(end_x - 1)) \X (start_y..(end_y - 1))

\* set_tiles_from_walls(walls): every tile walkable, then the walls' tiles
\* blocked
set_tiles_from_walls(walls) ==
    [t \in NavTiles |-> \A wall \in walls : t \notin blocked_tiles(wall)]

is_walkable(grid, t) == t \in NavTiles /\ grid[t]

\* the 4-connected neighbours of a tile
neighbours4(t) ==
    { <<t[1], t[2] + 1>>, <<t[1], t[2] - 1>>, <<t[1] + 1, t[2]>>,
      <<t[1] - 1, t[2]>> }

\* _flood_fill: the walkable tiles joined to region_tiles by 4-connected
\* steps
RECURSIVE flood_fill(_, _)
flood_fill(grid, region_tiles) ==
    LET more == { n \in UNION { neighbours4(t) : t \in region_tiles } :
                    is_walkable(grid, n) } \ region_tiles
    IN  IF more = {} THEN region_tiles
        ELSE flood_fill(grid, region_tiles \cup more)

\* the k-th tile of the scan "for y ... for x ..."
scan_tile(k) == <<k % grid_width, k \div grid_width>>

\* the flood-fill loop of build_regions_and_portals from the k-th tile on:
\* an unvisited walkable tile starts the region numbered region_id
RECURSIVE build_regions(_, _, _, _)
build_regions(grid, k, region_id, mapping) ==
    IF k >= grid_width * grid_height THEN mapping
    ELSE IF scan_tile(k) \in DOMAIN mapping \/ ~grid[scan_tile(k)]
         THEN build_regions(grid, k + 1, region_id, mapping)
         ELSE LET tiles == flood_fill(grid, {scan_tile(k)})
              IN  build_regions(grid, k + 1, region_id + 1,
                      [u \in DOMAIN mapping \cup tiles |->
                          IF u \in tiles THEN region_id ELSE mapping[u]])

Portal(region1, region2, t) ==
    [region1 |-> region1, region2 |-> region2,
     center_x |-> t[1] * TILE_SIZE + TILE_SIZE \div 2,
     center_y |-> t[2] * TILE_SIZE + TILE_SIZE \div 2,
     is_open |-> TRUE]

\* the regions other than its own that a walkable tile touches
adjacent_regions(grid, mapping, t) ==
    { mapping[n] : n \in { m \in neighbours4(t) :
                             is_walkable(grid, m) /\ m \in DOMAIN mapping } }
        \ {mapping[t]}

\* the inner loop of _detect_portals: one portal for each pair of regions
\* that has none yet
RECURSIVE add_portals(_, _, _, _)
add_portals(t, current_region, others, found) ==
    IF others = {} THEN found
    ELSE LET other_region == Min_of(others)
             existing_portal ==
                 \E i \in DOMAIN found :
                    \/ /\ found[i].region1 = current_region
                       /\ found[i].region2 = other_region
                    \/ /\ found[i].region1 = other_region
                       /\ found[i].region2 = current_region
         IN  add_portals(t, current_region, others \ {other_region},
                 IF existing_portal THEN found
                 ELSE Append(found, Portal(current_region, other_region, t)))

\* _detect_portals from the k-th tile on
RECURSIVE detect_portals(_, _, _, _)
detect_portals(grid, mapping, k, found) ==
    IF k >= grid_width * grid_height THEN found
    ELSE IF ~is_walkable(grid, scan_tile(k)) \/ scan_tile(k) \notin DOMAIN mapping
         THEN detect_portals(grid, mapping, k + 1, found)
         ELSE detect_portals(grid, mapping, k + 1,
                  add_portals(scan_tile(k), mapping[scan_tile(k)],
                      adjacent_regions(grid, mapping, scan_tile(k)), found))

\* the dictionary of portals: "portal_k" is the k-th one found, from 0
portals_by_id(found) == [id \in 0..(Len(found) - 1) |-> found[id + 1]]

\* Region.portals
region_portals(ps, region) ==
    { id \in DOMAIN ps : region \in {ps[id].region1, ps[id].region2} }

\* _build_portal_graph: two portals of one region are joined
in_portal_graph(ps, p, q) ==
    /\ p # q
    /\ \E region \in {ps[p].region1, ps[p].region2} :
          q \in region_portals(ps, region)

\* one step of the A* search leads from tile t to tile n: 8-way movement, no
\* diagonal step past a blocked corner
is_neighbour(grid, t, n) ==
    /\ n # t
    /\ n[1] - t[1] \in {-1, 0, 1}
    /\ n[2] - t[2] \in {-1, 0, 1}
    /\ is_walkable(grid, n)
    /\ (n[1] # t[1] /\ n[2] # t[2]) =>
          /\ is_walkable(grid, <<n[1], t[2]>>)
          /\ is_walkable(grid, <<t[1], n[2]>>)

\* the tiles one step of the A* search reaches from t
neighbours8(grid, t) ==
    { n \in { <<t[1] + dx, t[2] + dy>> : dx \in {-1, 0, 1}, dy \in {-1, 0, 1} } :
        is_neighbour(grid, t, n) }

RECURSIVE tiles_reached(_, _)
tiles_reached(grid, seen) ==
    LET more == UNION { neighbours8(grid, t) : t \in seen } \ seen
    IN  IF more = {} THEN seen ELSE tiles_reached(grid, seen \cup more)

\* lengths are counted in 1/30000 of a tile side, rounded down: the order of
\* the costs of two paths on the grid is that of the exact sums.
\* math.sqrt(n) for lo * lo <= n < hi * hi
CostUnit == 3 * 10000
RECURSIVE sqrt_between(_, _, _)
sqrt_between(lo, hi, n) ==
    IF hi - lo <= 1 THEN lo
    ELSE IF ((lo + hi) \div 2) * ((lo + hi) \div 2) <= n
         THEN sqrt_between((lo + hi) \div 2, hi, n)
         ELSE sqrt_between(lo, (lo + hi) \div 2, n)

\* math.sqrt(1 * 1 + 1 * 1)
diagonal_cost == sqrt_between(CostUnit, 2 * CostUnit, 2 * CostUnit * CostUnit)

\* move_cost = math.sqrt(dx * dx + dy * dy) of a step of the A* search
move_cost(t, n) ==
    IF t[1] = n[1] \/ t[2] = n[2] THEN CostUnit ELSE diagonal_cost

\* g_score when the A* search has settled: the least cost of a path of legal
\* steps from the start to each tile (the heuristic is the straight distance,
\* which never exceeds that cost, and a tile is pushed again whenever its cost
\* improves, so the goal comes off the heap with its least cost).  pushed are
\* the tiles whose cost improved last
RECURSIVE g_scores(_, _, _)
g_scores(grid, g_score, pushed) ==
    LET tentative_g(n) ==
            Min_of({ g_score[t] + move_cost(t, n) :
                       t \in { u \in pushed : is_neighbour(grid, u, n) } })
        better == { n \in UNION { neighbours8(grid, t) : t \in pushed } :
                      \/ n \notin DOMAIN g_score
                      \/ tentative_g(n) < g_score[n] }
        improved == [n \in DOMAIN g_score \cup better |->
                       IF n \in better THEN tentative_g(n) ELSE g_score[n]]
    IN  IF improved = g_score THEN g_score
        ELSE g_scores(grid, improved, better)

\* the paths came_from can hold for tile t at the end of the search: the
\* cheapest paths from the start.  Which of several equally cheap paths the
\* search keeps depends on the rounding of the float sums in tentative_g <
\* g_score[neighbor] and in the order of the heap, so each of them is allowed
RECURSIVE reconstruct_path(_, _, _, _)
reconstruct_path(grid, g_score, start, t) ==
    IF t = start THEN { <<start>> }
    ELSE UNION { { Append(path, t) : path \in reconstruct_path(grid, g_score, start, n) } :
                   n \in { u \in DOMAIN g_score :
                             /\ is_neighbour(grid, u, t)
                             /\ g_score[u] + move_cost(u, t) = g_score[t] } }

\* _find_direct_path(start, goal): the tile paths it can return, none if the
\* goal is not reached
find_direct_path(grid, start, goal) ==
    IF start = goal THEN { <<start>> }
    ELSE LET g_score == g_scores(grid, [t \in {start} |-> 0], {start})
         IN  IF goal \in DOMAIN g_score
             THEN reconstruct_path(grid, g_score, start, goal)
             ELSE {}

\* the tile of a point of the world
point_tile(point) == <<point[1] \div TILE_SIZE, point[2] \div TILE_SIZE>>

\* the centre of a tile
tile_centre(t) ==
    <<t[1] * TILE_SIZE + TILE_SIZE \div 2, t[2] * TILE_SIZE + TILE_SIZE \div 2>>

\* the tiles the Bresenham loop of _has_line_of_sight looks at on its way from
\* tile <<x, y>> to tile <<x2, y2>>, if none of them stops it
RECURSIVE line_tiles(_, _, _, _, _, _)
line_tiles(tile1, tile2, x, y, error, steps) ==
    LET dx == Abs(tile2[1] - tile1[1])
        dy == Abs(tile2[2] - tile1[2])
        x_inc == IF tile1[1] < tile2[1] THEN 1 ELSE -1
        y_inc == IF tile1[2] < tile2[2] THEN 1 ELSE -1
        x_moves == error * 2 > -dy
        error_x == IF x_moves THEN error - dy ELSE error
        y_moves == error_x * 2 < dx
    IN  IF steps >= dx + dy + 10 THEN <<>>
        ELSE IF <<x, y>> = tile2 THEN <<tile2>>
        ELSE <<<<x, y>>>> \o
             line_tiles(tile1, tile2,
                        IF x_moves THEN x + x_inc ELSE x,
                        IF y_moves THEN y + y_inc ELSE y,
                        IF y_moves THEN error_x + dx ELSE error_x,
                        steps + 1)

\* the tiles on the line between two points
sight_line(start, end) ==
    line_tiles(point_tile(start), point_tile(end),
               point_tile(start)[1], point_tile(start)[2],
               Abs(point_tile(end)[1] - point_tile(start)[1])
                 - Abs(point_tile(end)[2] - point_tile(start)[2]), 0)

\* _has_line_of_sight(start, end): every tile on the line is walkable
has_line_of_sight(grid, start, end) ==
    \/ point_tile(start) = point_tile(end)
    \/ LET line == sight_line(start, end)
       IN  \A i \in DOMAIN line : is_walkable(grid, line[i])

\* a smoothing that joins the i-th waypoint to the last one without looking
last_reachable_unseen(grid, waypoints, i, j) == Len(waypoints)

\* the last of the waypoints after the i-th that are in sight of it one after
\* the other, i if the next one is not
RECURSIVE last_reachable(_, _, _, _)
last_reachable(grid, waypoints, i, j) ==
    IF j + 1 <= Len(waypoints) /\ has_line_of_sight(grid, waypoints[i], waypoints[j + 1])
    THEN last_reachable(grid, waypoints, i, j + 1)
    ELSE j

\* the loop of _theta_star_smooth from the i-th waypoint on
RECURSIVE smooth_from(_, _, _, _)
smooth_from(grid, waypoints, i, smoothed) ==
    IF i >= Len(waypoints) THEN smoothed
    ELSE LET j == last_reachable(grid, waypoints, i, i)
         IN  IF j > i
             THEN smooth_from(grid, waypoints, j,
                      IF j < Len(waypoints) THEN Append(smoothed, waypoints[j])
                      ELSE smoothed)
             ELSE smooth_from(grid, waypoints, i + 1, Append(smoothed, waypoints[i + 1]))

\* _theta_star_smooth(waypoints)
theta_star_smooth(grid, waypoints) ==
    IF Len(waypoints) <= 2 THEN waypoints
    ELSE LET smoothed == smooth_from(grid, waypoints, 1, <<waypoints[1]>>)
         IN  IF smoothed[Len(smoothed)] # waypoints[Len(waypoints)]
             THEN Append(smoothed, waypoints[Len(waypoints)])
             ELSE smoothed

\* the centres of the tiles of a path
tile_centres(path) == [i \in DOMAIN path |-> tile_centre(path[i])]

PathFound(waypoints) == [ok |-> TRUE, reason |-> "SUCCESS", waypoints |-> waypoints]

PathResponse(ok, reason) == [ok |-> ok, reason |-> reason, waypoints |-> <<>>]

\* _estimate_cost(x1, y1, x2, y2), and the distance _build_portal_graph gives
\* two portals of a region: counted in 1/100 of a pixel
estimate_cost(a, b) ==
    sqrt_between(0, 46340,
        ((b[1] - a[1]) * (b[1] - a[1]) + (b[2] - a[2]) * (b[2] - a[2])) * 100 * 100)

\* the centre of a portal
portal_centre(ps, id) == <<ps[id].center_x, ps[id].center_y>>

\* the cost of a path through the portal graph (no cost_bias, prefer_indoor
\* false: the defaults of PathQuery)
RECURSIVE portal_path_cost(_, _)
portal_path_cost(ps, path) ==
    IF Len(path) <= 1 THEN 0
    ELSE estimate_cost(portal_centre(ps, path[1]), portal_centre(ps, path[2]))
           + portal_path_cost(ps, Tail(path))

\* the paths of the portal graph from one portal to another
portal_paths(ps, start_portal_id, goal_portal_id) ==
    { path \in UNION { [1..k -> DOMAIN ps] : k \in 1..Cardinality(DOMAIN ps) } :
        /\ path[1] = start_portal_id
        /\ path[Len(path)] = goal_portal_id
        /\ \A i, j \in DOMAIN path : i # j => path[i] # path[j]
        /\ \A i \in 1..(Len(path) - 1) : in_portal_graph(ps, path[i], path[i + 1]) }

\* _find_portal_path(start_portal_id, goal_portal_id): Dijkstra's search over
\* portal_graph finds a cheapest path (which one of several equally cheap ones
\* depends on the order of a set of strings, so each is allowed); it does not
\* look at is_open of the portals it passes
find_portal_path(ps, start_portal_id, goal_portal_id) ==
    LET paths == portal_paths(ps, start_portal_id, goal_portal_id)
    IN  { path \in paths :
            \A other \in paths : portal_path_cost(ps, path) <= portal_path_cost(ps, other) }

\* the waypoints of _find_hierarchical_path before smoothing: the tile
\* centres of the start segment without its last tile, the centres of the
\* portals, the tile centres of the goal segment without its first tile, the
\* goal of the query
hierarchical_waypoints(grid, ps, query, start_tile, goal_tile, portal_path) ==
    LET start_portal == portal_path[1]
        goal_portal == portal_path[Len(portal_path)]
        start_segments ==
            find_direct_path(grid, start_tile, point_tile(portal_centre(ps, start_portal)))
        goal_segments ==
            find_direct_path(grid, point_tile(portal_centre(ps, goal_portal)), goal_tile)
        start_part == IF start_segments = {} THEN { <<>> }
                      ELSE { tile_centres(SubSeq(segment, 1, Len(segment) - 1)) :
                               segment \in start_segments }
        goal_part == IF goal_segments = {} THEN { <<>> }
                     ELSE { tile_centres(Tail(segment)) : segment \in goal_segments }
    IN  { first \o [i \in DOMAIN portal_path |-> portal_centre(ps, portal_path[i])]
                \o last \o <<query.goal>> :
            first \in start_part, last \in goal_part }

\* _find_hierarchical_path: from an open portal of the start region through
\* the portal graph to an open portal of the goal region, the pair of least
\* estimated cost
find_hierarchical_path(grid, ps, query, start_region, goal_region, start_tile, goal_tile) ==
    LET start_portals == { p \in region_portals(ps, start_region) : ps[p].is_open }
        goal_portals == { p \in region_portals(ps, goal_region) : ps[p].is_open }
        portal_pairs == { pair \in start_portals \X goal_portals :
                            find_portal_path(ps, pair[1], pair[2]) # {} }
        total_cost(pair) ==
            estimate_cost(query.start, portal_centre(ps, pair[1]))
              + portal_path_cost(ps, CHOOSE path \in find_portal_path(ps, pair[1], pair[2]) : TRUE)
              + estimate_cost(portal_centre(ps, pair[2]), query.goal)
        best == { pair \in portal_pairs :
                    \A other \in portal_pairs : total_cost(pair) <= total_cost(other) }
    IN  IF portal_pairs = {} THEN { PathResponse(FALSE, "NO_PATH") }
        ELSE { PathFound(theta_star_smooth(grid, waypoints)) :
                 waypoints \in UNION { hierarchical_waypoints(grid, ps, query, start_tile,
                                                             goal_tile, portal_path) :
                     portal_path \in UNION { find_portal_path(ps, pair[1], pair[2]) :
                                               pair \in best } } }

\* find_path(query): the responses it can give
find_path(grid, mapping, ps, query) ==
    LET start_tile == <<query.start[1] \div TILE_SIZE, query.start[2] \div TILE_SIZE>>
        goal_tile == <<query.goal[1] \div TILE_SIZE, query.goal[2] \div TILE_SIZE>>
    IN  IF ~is_walkable(grid, start_tile) THEN { PathResponse(FALSE, "INVALID_START") }
        ELSE IF ~is_walkable(grid, goal_tile) THEN { PathResponse(FALSE, "INVALID_GOAL") }
        ELSE IF start_tile \notin DOMAIN mapping \/ goal_tile \notin DOMAIN mapping
             THEN { PathResponse(FALSE, "NO_PATH") }
        ELSE IF mapping[start_tile] = mapping[goal_tile]
             THEN LET paths == find_direct_path(grid, start_tile, goal_tile)
                  IN  IF paths # {}
                      THEN { PathFound(theta_star_smooth(grid, tile_centres(waypoints))) :
                               waypoints \in paths }
                      ELSE { PathResponse(FALSE, "NO_PATH") }
        ELSE find_hierarchical_path(grid, ps, query, mapping[start_tile],
                                    mapping[goal_tile], start_tile, goal_tile)

\* the column of tiles of the dividing wall
DividerColumn == 2

\* two rooms joined by one doorway: a dividing wall with a gap one tile wide
\* in row gap
TwoRooms(gap) ==
    { wall \in { Rect(DividerColumn * TILE_SIZE, 0, TILE_SIZE, gap * TILE_SIZE),
                 Rect(DividerColumn * TILE_SIZE, (gap + 1) * TILE_SIZE, TILE_SIZE,
                      (grid_height - gap - 1) * TILE_SIZE) } : wall.h > 0 }

\* the layouts: no wall, the two rooms with a doorway in any row, the two
\* rooms with no doorway, and a thin wall that is not aligned to the tiles
WallLayouts ==
    { {} } \cup { TwoRooms(gap) : gap \in 0..(grid_height - 1) }
      \cup { { Rect(DividerColumn * TILE_SIZE, 0, TILE_SIZE, grid_height * TILE_SIZE) },
             { Rect(DividerColumn * TILE_SIZE + 6, 0, 10, (grid_height - 1) * TILE_SIZE) } }

\* the ids a caller may pass to set_portal_open
PortalIds == 0..1

\* the points of a query: the centres of the tiles of the top row and of the
\* two bottom corners
QueryPoints ==
    { <<t[1] * TILE_SIZE + TILE_SIZE \div 2, t[2] * TILE_SIZE + TILE_SIZE \div 2>> :
        t \in ((0..(grid_width - 1)) \X {0})
                \cup ({0, grid_width - 1} \X {grid_height - 1}) }

InitNav == InitWith(FALSE)

\* the new navigator is set up from a layout, once:
\* set_tiles_from_walls(walls), then build_regions_and_portals()
InitializeNavigation ==
    /\ tile_to_region = <<>>
    /\ \E walls \in WallLayouts :
          /\ nav_walls' = walls
          /\ walkable_grid' = set_tiles_from_walls(walls)
    /\ tile_to_region' = build_regions(walkable_grid', 0, 0, <<>>)
    /\ portals' = portals_by_id(
                      detect_portals(walkable_grid', tile_to_region', 0, <<>>))
    /\ last_portal_call' = NoPortalCall
    /\ path_query' = NoQuery
    /\ path_response' = NoResponse
    /\ UNCHANGED <<controllerVars, hostVars, shopkeeperVars, historyVars,
                   clientVars, parserVars, gridVars>>

\* set_portal_open(portal_id, is_open), called between two queries
SetPortalOpen ==
    /\ path_query = NoQuery
    /\ \E portal_id \in PortalIds, is_open \in BOOLEAN :
          /\ portals' = IF portal_id \in DOMAIN portals
                        THEN [portals EXCEPT ![portal_id].is_open = is_open]
                        ELSE portals
          /\ last_portal_call' = [portal_id |-> portal_id, is_open |-> is_open]
    /\ path_query' = NoQuery
    /\ path_response' = NoResponse
    /\ UNCHANGED <<nav_walls, walkable_grid, tile_to_region>>
    /\ UNCHANGED <<controllerVars, hostVars, shopkeeperVars, historyVars,
                   clientVars, parserVars, gridVars>>

\* a caller makes up PathQuery(start_x, start_y, goal_x, goal_y)
QueryMade ==
    /\ path_query = NoQuery
    /\ \E start \in QueryPoints, goal \in QueryPoints :
          path_query' = [start |-> start, goal |-> goal]
    /\ path_response' = NoResponse
    /\ UNCHANGED <<nav_walls, walkable_grid, tile_to_region, portals,
                   last_portal_call>>
    /\ UNCHANGED <<controllerVars, hostVars, shopkeeperVars, historyVars,
                   clientVars, parserVars, gridVars>>

\* find_path(query) answers the query
FindPath ==
    /\ path_query # NoQuery
    /\ path_response = NoResponse
    /\ path_response' \in find_path(walkable_grid, tile_to_region, portals,
                                     path_query)
    /\ UNCHANGED <<nav_walls, walkable_grid, tile_to_region, portals,
                   last_portal_call, path_query>>
    /\ UNCHANGED <<controllerVars, hostVars, shopkeeperVars, historyVars,
                   clientVars, parserVars, gridVars>>

\* the caller has read the response and drops it with its query
ResponseRead ==
    /\ path_response # NoResponse
    /\ path_query' = NoQuery
    /\ path_response' = NoResponse
    /\ UNCHANGED <<nav_walls, walkable_grid, tile_to_region, portals,
                   last_portal_call>>
    /\ UNCHANGED <<controllerVars, hostVars, shopkeeperVars, historyVars,
                   clientVars, parserVars, gridVars>>

NextNav ==
    InitializeNavigation \/ SetPortalOpen \/ QueryMade \/ FindPath \/ ResponseRead

SpecNav == InitNav /\ [][NextNav]_vars

\* four rooms: the dividing wall without a doorway and a wall along tile row 1
FourRooms ==
    { Rect(DividerColumn * TILE_SIZE, 0, TILE_SIZE, grid_height * TILE_SIZE),
      Rect(0, TILE_SIZE, grid_width * TILE_SIZE, TILE_SIZE) }

\* the door tiles in the walls of the four rooms: top left - bottom left,
\* bottom left - bottom right, bottom right - top right
Doors == << <<0, 1>>, <<DividerColumn, 2>>, <<DividerColumn + 2, 1>> >>

\* _create_portal_from_span(portal_id, [t], regions): the portal joins the
\* first two of the regions
create_portal_from_span(ps, t, regions) ==
    IF Cardinality(regions) < 2 THEN ps
    ELSE LET region1 == Min_of(regions)
             region2 == Min_of(regions \ {region1})
         IN  [id \in DOMAIN ps \cup {Cardinality(DOMAIN ps)} |->
                 IF id \in DOMAIN ps THEN ps[id] ELSE Portal(region1, region2, t)]

\* the navigator is set up from the layout of the four rooms
InitializeRooms ==
    /\ tile_to_region = <<>>
    /\ nav_walls' = FourRooms
    /\ walkable_grid' = set_tiles_from_walls(FourRooms)
    /\ tile_to_region' = build_regions(walkable_grid', 0, 0, <<>>)
    /\ portals' = portals_by_id(
                      detect_portals(walkable_grid', tile_to_region', 0, <<>>))
    /\ last_portal_call' = NoPortalCall
    /\ path_query' = NoQuery
    /\ path_response' = NoResponse
    /\ UNCHANGED <<controllerVars, hostVars, shopkeeperVars, historyVars,
                   clientVars, parserVars, gridVars>>

\* the next door is made a portal of the two regions it lies between:
\* _create_portal_from_span("portal_k", [door], regions), _build_portal_graph()
CreatePortal ==
    /\ tile_to_region # <<>>
    /\ path_query = NoQuery
    /\ Cardinality(DOMAIN portals) < Len(Doors)
    /\ portals' = create_portal_from_span(portals, Doors[Cardinality(DOMAIN portals) + 1],
                      { tile_to_region[n] :
                          n \in { m \in neighbours4(Doors[Cardinality(DOMAIN portals) + 1]) :
                                    m \in DOMAIN tile_to_region } })
    /\ UNCHANGED <<nav_walls, walkable_grid, tile_to_region, last_portal_call,
                   path_query, path_response>>
    /\ UNCHANGED <<controllerVars, hostVars, shopkeeperVars, historyVars,
                   clientVars, parserVars, gridVars>>

NextPortals ==
    \/ InitializeRooms
    \/ CreatePortal
    \/ SetPortalOpen
    \/ QueryMade
    \/ FindPath
    \/ ResponseRead

SpecPortals == InitNav /\ [][NextPortals]_vars

----------------------------------------------------------------------------
(* Properties *)

IsError(result) ==
    result.head \in {"invalid", "parse_error", "request_failed", "decision_error"}

\* C1: in every reachable state 0 <= consecutive_errors <= max_consecutive_errors
C1_ErrorsWithinCap ==
    consecutive_errors \in 0..max_consecutive_errors

\* the counter has reached the cap after three failed decisions in a row
C1_Witness ==
    /\ consecutive_errors = max_consecutive_errors
    /\ IsError(ret)

C4_OneActionPerTick ==
    [][ /\ actions_executed' <= 1
        /\ llm_calls' <= 1
        /\ (active_movement # "none" /\ movement_steps_remaining > 0 /\ ret' # None) =>
              /\ llm_calls' = 0
              /\ actions_executed' = 1
              /\ executed_action' =
                    (IF active_movement = "move_dir" THEN "move" ELSE "continue_move_to")
              /\ Abs(npc_rect'.x - npc_rect.x) <= NPC_SPEED
              /\ Abs(npc_rect'.y - npc_rect.y) <= NPC_SPEED
              /\ movement_steps_remaining' \in
                    {movement_steps_remaining, movement_steps_remaining - 1, 0} ]_vars

\* a continuation step of a move was taken without the LLM
C4_Witness ==
    /\ executed_action = "move"
    /\ llm_calls = 0
    /\ ret = OK
    /\ active_movement = "move_dir"

\* C5: a move decided less than 200 ms after the latest move that returned ok
\* returns cooldown and leaves the NPC where it was
C5_MoveCooldown ==
    [][ (/\ executed_action' = "move"
         /\ move_ok_time >= 0
         /\ clock' < move_ok_time + MOVE_COOLDOWN) =>
            /\ ret' = Str("cooldown", "")
            /\ npc_rect' = npc_rect ]_vars

\* a move was refused within 200 ms of a move that had returned ok
C5_Witness ==
    /\ executed_action = "move"
    /\ ret = Str("cooldown", "")
    /\ move_ok_time >= 0
    /\ clock < move_ok_time + MOVE_COOLDOWN

\* C6: after a decision the counter is 0 if the decision succeeded, and one
\* more than the value the decision started from (the counter as the backoff
\* gate left it: 0 if it stood at the cap) if the result begins with invalid,
\* parse_error or request_failed
C6_ErrorCounting ==
    [][ ret' # None =>
          /\ ~IsError(ret') => consecutive_errors' = 0
          /\ ret'.head \in {"invalid", "parse_error", "request_failed"} =>
                consecutive_errors' =
                    (IF consecutive_errors >= max_consecutive_errors
                     THEN 0 ELSE consecutive_errors) + 1 ]_vars

\* a second failure in a row, this one an action the engine found invalid
C6_Witness ==
    /\ consecutive_errors = 2
    /\ ret = Str("invalid", " Entity not found")

\* C7: a decision whose result is cooldown, blocked:* or no_path does not
\* increase the counter and leaves it below the cap
C7_EngineRefusalsAreNotErrors ==
    [][ ret'.head \in {"cooldown", "blocked", "no_path"} =>
          /\ consecutive_errors' <= consecutive_errors
          /\ consecutive_errors' < max_consecutive_errors ]_vars

\* the engine refused an action of the LLM and the counter is 0
C7_Witness ==
    /\ ret = Str("blocked", "too_far")
    /\ llm_calls = 1
    /\ consecutive_errors = 0

\* C8: a reply that does not decode to a JSON object gives a result beginning
\* parse_error, stored as last_result, one more error than the decision
\* started from, and no change to position, speech or inventories
C8_ParseError ==
    [][ llm_reply_kind' \in {"text", "array"} =>
          /\ ret'.head = "parse_error"
          /\ last_result' = ret'
          /\ consecutive_errors' =
                (IF consecutive_errors >= max_consecutive_errors
                 THEN 0 ELSE consecutive_errors) + 1
          /\ UNCHANGED <<npc_rect, speech_text, npc_inventory, target_inventory>> ]_vars

\* the LLM answered in prose and the tick reported a parse error
C8_Witness ==
    /\ llm_reply_kind = "text"
    /\ ret.head = "parse_error"
    /\ last_result = ret
    /\ consecutive_errors >= 1

\* the NPC rect displaced by one step in a direction is not free
StepBlocked(p, direction) ==
    CASE direction = "N" -> ~YFree(p, p.y - NPC_SPEED)
      [] direction = "S" -> ~YFree(p, p.y + NPC_SPEED)
      [] direction = "E" -> ~XFree(p, p.x + NPC_SPEED)
      [] direction = "W" -> ~XFree(p, p.x - NPC_SPEED)
      [] OTHER -> FALSE

\* C10: a move, from the LLM or a continuation step, that is past its cooldown
\* and whose step is blocked returns blocked:wall, leaves the NPC where it was
\* and leaves no sequence active
C10_BlockedMove ==
    [][ (/\ executed_action' = "move"
         /\ ret' # Str("cooldown", "")
         /\ StepBlocked(npc_rect, executed_direction')) =>
            /\ ret' = Str("blocked", "wall")
            /\ npc_rect' = npc_rect
            /\ active_movement' = "none" ]_vars

\* a continuation step ran into the wall
C10_Witness ==
    /\ executed_action = "move"
    /\ llm_calls = 0
    /\ ret = Str("blocked", "wall")
    /\ StepBlocked(npc_rect, executed_direction)

\* C3: with idle behaviour off and no sequence active, a tick on which the
\* player did not speak returns None, calls nothing and leaves the controller,
\* the NPC position, the speech buffer and the inventories as they were
C3_GateLeavesStateUnchanged ==
    [][ (~player_spoke' /\ active_movement = "none" /\ ~idle_behavior_enabled) =>
          /\ ret' = None
          /\ llm_calls' = 0
          /\ actions_executed' = 0
          /\ UNCHANGED <<cooldowns, last_result, last_decision_time,
                         consecutive_errors, active_movement, movement_target,
                         movement_steps_remaining, movement_direction, npc_rect,
                         speech_text, npc_inventory, target_inventory>> ]_vars

\* a silent tick long after the last decision was skipped
C3_Witness ==
    /\ ~idle_behavior_enabled
    /\ ~player_spoke
    /\ active_movement = "none"
    /\ ret = None
    /\ last_decision_time > 0
    /\ clock - last_decision_time >= decision_interval * 8

Count(b) == IF b THEN 1 ELSE 0

\* what a step changed in the engine
SpeechChanged == speech_text' # speech_text
PositionChanged == npc_rect' # npc_rect
InventoryChanged ==
    npc_inventory' # npc_inventory \/ target_inventory' # target_inventory
\* a cooldown differs from what the update at the head of the tick left
CooldownSet == cooldowns' # CooldownsAfterUpdate(clock')

\* C9 as stated: a decision that returns ok did exactly one of: change the
\* speech buffer, change the NPC position, set a cooldown, change an inventory
C9_ExactlyOneEffect ==
    [][ ret' = OK =>
          Count(SpeechChanged) + Count(PositionChanged) + Count(CooldownSet)
            + Count(InventoryChanged) = 1 ]_vars

\* C9 amended: a decision that returns ok changes at most one of speech
\* buffer, NPC position and inventories; a move step and the first step of a
\* move_to that change the position also set cooldowns.move to 200; no other
\* ok sets a cooldown but interact, which sets cooldowns.interact to 1000 and
\* changes nothing else
C9_EffectsOfOk ==
    [][ ret' = OK =>
          /\ Count(SpeechChanged) + Count(PositionChanged)
               + Count(InventoryChanged) <= 1
          /\ (executed_action' \in {"move", "move_to"} /\ PositionChanged) =>
                cooldowns' = [CooldownsAfterUpdate(clock') EXCEPT !.move = MOVE_COOLDOWN]
          /\ CooldownSet =>
                \/ executed_action' \in {"move", "move_to"} /\ PositionChanged
                \/ /\ executed_action' = "interact"
                   /\ cooldowns' =
                        [CooldownsAfterUpdate(clock') EXCEPT !.interact = INTERACT_COOLDOWN]
                   /\ ~SpeechChanged /\ ~PositionChanged /\ ~InventoryChanged ]_vars

\* a move of the LLM returned ok: the NPC moved and the move cooldown runs
C9_Witness ==
    /\ ret = OK
    /\ executed_action = "move"
    /\ llm_calls = 1
    /\ cooldowns.move = MOVE_COOLDOWN
    /\ npc_rect.x # 8

\* an LLM-issued move whose first step succeeded
LLMMoveOk == ret' = OK /\ executed_action' = "move" /\ llm_calls' = 1

\* C11 as stated: after an LLM-issued move whose first step succeeds,
\* active_movement is move_dir, movement_steps_remaining is
\* ceil(dist * 32 / speed) - 1 and cooldowns.move is 200 (dist is held in
\* tenths of a tile)
C11_CeilSteps ==
    [][ LLMMoveOk =>
          /\ active_movement' = "move_dir"
          /\ movement_steps_remaining' =
                (executed_distance' * TILE_SIZE + 10 * NPC_SPEED - 1)
                    \div (10 * NPC_SPEED) - 1
          /\ cooldowns'.move = MOVE_COOLDOWN ]_vars

\* C11 amended: after an LLM-issued move whose first step succeeds,
\* cooldowns.move is 200; if no sequence was recorded before it,
\* active_movement is move_dir in the move's direction and
\* movement_steps_remaining is max(1, floor(dist * (32 div speed))) - 1; if a
\* sequence was still recorded, the step is counted against it
C11_StepsOfNewSequence ==
    [][ LLMMoveOk =>
          /\ cooldowns'.move = MOVE_COOLDOWN
          /\ IF active_movement = "none"
             THEN /\ active_movement' = "move_dir"
                  /\ movement_direction' = executed_direction'
                  /\ movement_steps_remaining' =
                        Max(1, (executed_distance' * (TILE_SIZE \div NPC_SPEED)) \div 10) - 1
             ELSE /\ movement_steps_remaining' = movement_steps_remaining - 1
                  /\ active_movement' =
                        (IF movement_steps_remaining - 1 <= 0
                         THEN "none" ELSE active_movement) ]_vars

\* a move of 0.3 tiles started a sequence of two steps: one is left
C11_Witness ==
    /\ ret = OK
    /\ executed_action = "move"
    /\ llm_calls = 1
    /\ executed_distance = 3
    /\ active_movement = "move_dir"
    /\ movement_steps_remaining = 1

\* a continuation step of a move_dir sequence that succeeded
MoveDirContinuationOk ==
    ret' = OK /\ executed_action' = "move" /\ llm_calls' = 0

\* C12: a successful move_dir continuation step takes exactly 1 from
\* movement_steps_remaining, and active_movement is none afterwards exactly
\* when movement_steps_remaining has reached 0; until then the sequence goes on
\* in its direction
C12_ContinuationCountsDown ==
    [][ MoveDirContinuationOk =>
          /\ movement_steps_remaining' = movement_steps_remaining - 1
          /\ active_movement' = "none" <=> movement_steps_remaining' = 0
          /\ active_movement' # "none" =>
                /\ active_movement' = "move_dir"
                /\ movement_direction' = movement_direction ]_vars

\* the last continuation step of a sequence has just cleared it
C12_Witness ==
    /\ ret = OK
    /\ executed_action = "move"
    /\ llm_calls = 0
    /\ movement_steps_remaining = 0
    /\ active_movement = "none"
    /\ movement_direction = "none"

\* the tick ran a continuation step of a move_to sequence
MoveToContinuation == executed_action' = "continue_move_to"

\* squared distance from the NPC's centre to movement_target before the step
TargetDist2 ==
    Dist2(movement_target.x - centerx(npc_rect),
          movement_target.y - centery(npc_rect))

MovementCleared ==
    /\ active_movement' = "none"
    /\ movement_target' = NoTarget
    /\ movement_steps_remaining' = 0

\* C13: a move_to continuation tick that finds the NPC within 16 px of
\* movement_target returns ok and clears the movement state; one whose step is
\* blocked returns blocked:obstacle and clears the movement state
C13_MoveToContinuation ==
    [][ (MoveToContinuation /\ movement_target.set) =>
          /\ TargetDist2 < ARRIVE_DISTANCE * ARRIVE_DISTANCE =>
                ret' = OK /\ MovementCleared /\ npc_rect' = npc_rect
          /\ ( /\ TargetDist2 >= ARRIVE_DISTANCE * ARRIVE_DISTANCE
               /\ npc_rect' = npc_rect ) =>
                ret' = Str("blocked", "obstacle") /\ MovementCleared ]_vars

\* a continuation tick found the NPC within 16 px of the target it had set
C13_Witness ==
    /\ executed_action = "continue_move_to"
    /\ ret = OK
    /\ active_movement = "none"
    /\ movement_target = NoTarget
    /\ movement_steps_remaining = 0
    /\ llm_calls = 0

\* the tick ran a move_to of the LLM with the move cooldown elapsed
LLMMoveTo ==
    /\ executed_action' = "move_to"
    /\ llm_calls' = 1
    /\ ret' # Str("cooldown", "")

\* C14: for move_to(tx, ty) the target of the sequence is the world-space
\* centre of tile (tx, ty), and the NPC counts as already there when its
\* centre is less than 16 px from that tile centre
C14_TargetIsTileCentre ==
    [][ LLMMoveTo =>
          LET TileCentreX == executed_tile'.x * TILE_SIZE + TILE_SIZE \div 2
              TileCentreY == executed_tile'.y * TILE_SIZE + TILE_SIZE \div 2
          IN
          /\ Dist2(TileCentreX - centerx(npc_rect), TileCentreY - centery(npc_rect))
                < ARRIVE_DISTANCE * ARRIVE_DISTANCE =>
                /\ ret' = OK
                /\ npc_rect' = npc_rect
                /\ UNCHANGED <<active_movement, movement_target,
                               movement_steps_remaining>>
          /\ (ret' = OK /\ active_movement' = "move_to") =>
                movement_target' = Target(TileCentreX, TileCentreY) ]_vars

\* the tick ran one continuation step of the recorded sequence
ContinuationStep ==
    llm_calls' = 0 /\ executed_action' \in {"move", "continue_move_to"}

\* C15: while active_movement is not none and the player has not spoken, a
\* tick performs a continuation step if and only if at least 200 ms have
\* passed since last_decision_time, and otherwise returns None
C15_ContinuationEvery200ms ==
    [][ (active_movement # "none" /\ ~player_spoke') =>
          /\ ContinuationStep <=> clock' - last_decision_time >= CONTINUE_INTERVAL
          /\ clock' - last_decision_time < CONTINUE_INTERVAL => ret' = None ]_vars

\* the executor the tick ran has just started cooldown k
CooldownStarted(k) ==
    /\ ret' = OK
    /\ IF k = "move"
       THEN /\ executed_action' \in {"move", "move_to"}
            /\ npc_rect' # npc_rect
            /\ cooldowns'.move = MOVE_COOLDOWN
       ELSE /\ executed_action' = "interact"
            /\ cooldowns'.interact = INTERACT_COOLDOWN

\* C16: no cooldown is ever negative, and a decision leaves every cooldown
\* that its action did not start at its old value less the milliseconds
\* elapsed since the previous decision, clamped at 0
C16_CooldownsFollowElapsedTime ==
    [][ /\ \A k \in DOMAIN cooldowns : cooldowns'[k] >= 0
        /\ ret' # None =>
              \A k \in DOMAIN cooldowns :
                 \/ cooldowns'[k] =
                       Max(0, cooldowns[k] - (clock' - last_decision_time))
                 \/ CooldownStarted(k) ]_vars

\* a decision 300 ms after an interact found 700 ms of its cooldown left
C16_Witness ==
    /\ ret # None
    /\ cooldowns.interact = INTERACT_COOLDOWN - 300
    /\ last_decision_time = 1300

RECURSIVE QuantityFrom(_, _, _)
QuantityFrom(inv, item_id, i) ==
    IF i > Len(inv) THEN 0
    ELSE (IF Holds(inv[i], item_id) THEN inv[i].quantity ELSE 0)
           + QuantityFrom(inv, item_id, i + 1)

\* how many of item_id the inventory holds, over all its slots
Quantity(inv, item_id) == QuantityFrom(inv, item_id, 1)

\* C17: a transfer_item that finds the target's inventory full returns
\* blocked:inventory_full and leaves the NPC holding as many of the item as
\* before, whatever the NPC's own inventory looked like
C17_RollbackKeepsQuantity ==
    [][ (executed_action' = "transfer_item"
           /\ ret' = Str("blocked", "inventory_full")) =>
          Quantity(npc_inventory', executed_item')
            = Quantity(npc_inventory, executed_item') ]_vars

\* the entity the interact named exists within 64 px of the NPC's centre
EntityInReach ==
    \E ent \in Entities :
        /\ ent.id = executed_entity'
        /\ Dist2(ent.x - centerx(npc_rect), ent.y - centery(npc_rect))
              <= INTERACT_DISTANCE * INTERACT_DISTANCE

\* C18: interact returns ok only when cooldowns.interact has run down to 0
\* and the named entity exists within 64 px of the NPC; only then is
\* cooldowns.interact set to 1000, and an interact attempted while
\* cooldowns.interact > 0 returns cooldown
C18_Interact ==
    [][ executed_action' = "interact" =>
          /\ ret' = OK =>
                /\ CooldownsAfterUpdate(clock').interact = 0
                /\ EntityInReach
                /\ cooldowns'.interact = INTERACT_COOLDOWN
          /\ ret' # OK =>
                cooldowns'.interact = CooldownsAfterUpdate(clock').interact
          /\ CooldownsAfterUpdate(clock').interact > 0 =>
                ret' = Str("cooldown", "") ]_vars

\* an interact with the door in reach has just started its cooldown
C18_Witness ==
    /\ executed_action = "interact"
    /\ executed_entity = "door_1"
    /\ ret = OK
    /\ cooldowns.interact = INTERACT_COOLDOWN

\* the results a tick may hand back to the host
ResultHeads ==
    {"None", "ok", "cooldown", "blocked", "invalid", "parse_error",
     "request_failed", "decision_error"}

Outstanding == Cardinality(worker_threads) + Len(response_queue)

\* C20: at most one LLM request of the NPC is outstanding at any time, it is
\* the latest one, and one is outstanding exactly while waiting_for_llm is
\* set; a step issues a new request only when waiting_for_llm was clear and
\* nothing was outstanding
C20_OneRequestOutstanding ==
    [][ /\ Outstanding' <= 1
        /\ waiting_for_llm' <=> Outstanding' = 1
        /\ \A id \in worker_threads' : id = llm_request_id'
        /\ \A i \in 1..Len(response_queue') :
              response_queue'[i].id = llm_request_id'
        /\ worker_threads' \ worker_threads # {} =>
              /\ ~waiting_for_llm
              /\ Outstanding = 0
              /\ worker_threads' = {llm_request_id + 1} ]_vars

\* the second request is in flight, after the answer to the first was spoken
C20_Witness ==
    /\ llm_request_id = 2
    /\ worker_threads = {2}
    /\ waiting_for_llm
    /\ response_queue = <<>>

\* C21: each utterance of the player is player.last_said in at most one
\* observation sent to the LLM
C21_LastSaidSentOnce ==
    \A u \in 1..MaxUtterances : last_said_sent[u] <= 1

\* two utterances were each sent once, and the LLM was then asked again,
\* with no utterance on show
C21_Witness ==
    /\ last_said_sent[1] = 1
    /\ last_said_sent[2] = 1
    /\ llm_calls = 1
    /\ player_speech_text = 0

\* C22: the dialogue history holds at most 6 entries, and it is always the
\* most recent of the appended entries, in the order they arrived
C22_HistoryIsLatestSix ==
    /\ Len(conversation_history) <= 6
    /\ Len(conversation_history) = Min(6, Len(appended))
    /\ \A i \in 1..Len(conversation_history) :
          conversation_history[i] =
             appended[Len(appended) - Len(conversation_history) + i]

\* two entries have been evicted from a full history
C22_Witness ==
    /\ Len(appended) = 8
    /\ Len(conversation_history) = 6
    /\ conversation_history[1] # appended[1]

\* an attempt that did not succeed: the request raised, the status is not
\* 200, or there is no content in the reply
AttemptFailed(resp) ==
    \/ resp.raises
    \/ resp.status # 200
    \/ ~resp.choices
    \/ \A i \in 1..Len(resp.content) : resp.content[i] \in Whitespace

\* C23: decide makes at most max_retries + 1 attempts; it goes on after every
\* failed attempt but the last, returns at the first attempt that succeeds,
\* and after the last failed attempt returns an error beginning request_failed
C23_DecideRetries ==
    /\ Len(http_log) <= max_retries + 1
    /\ \A i \in 1..(Len(http_log) - 1) : AttemptFailed(http_log[i])
    /\ decide_pc = "requesting" =>
          /\ Len(http_log) <= max_retries
          /\ \A i \in 1..Len(http_log) : AttemptFailed(http_log[i])
    /\ decide_pc = "returned" =>
          IF AttemptFailed(http_log[Len(http_log)])
          THEN /\ Len(http_log) = max_retries + 1
               /\ decide_result.error.head = "request_failed"
               /\ decide_result.response = <<>>
          ELSE /\ decide_result.error = NoError
               /\ decide_result.response # <<>>

\* the third attempt succeeded after two that failed, one of them with a
\* status other than 200 and one with empty content
C23_Witness ==
    /\ decide_pc = "returned"
    /\ Len(http_log) = 3
    /\ decide_result.error = NoError
    /\ ~http_log[1].raises /\ http_log[1].status = 500
    /\ ~http_log[2].raises /\ http_log[2].status = 200 /\ http_log[2].choices
    /\ http_log[2].content = <<" ", "\n">>
    /\ slept = 1500

\* what parse_action may return: an action and the error "", or no action
\* and an error that starts with parse_error or invalid
ActionOrError(p) ==
    \/ p.action.action \in ActionTypes /\ p.error = Str("", "")
    \/ p.action.action = <<>> /\ p.error.head \in {"parse_error", "invalid"}

C25_ParseOfSerialised ==
    (parse_called /\ serialised_from.action \in ActionTypes)
    => /\ last_parsed.error = Str("", "")
       /\ last_parsed.action.action = serialised_from.action
       /\ last_parsed.action.args = serialised_from.args

\* a say of one hundred characters, or of characters that JSON escapes,
\* came back as it was
C25_Witness ==
    /\ parse_called
    /\ last_parsed.error = Str("", "")
    /\ \/ /\ serialised_from.action = NameSay
          /\ Len(last_parsed.action.args.text) = 100
       \/ /\ serialised_from.action = NameSay
          /\ last_parsed.action.args.text
             = <<"a", Quote, "b", Backslash, "c", "\n", "}", "\t">>

\* the keys the Args class of an action type defines
ArgsKeys(action_type) ==
    IF action_type = NameSay THEN {KeyText}
    ELSE IF action_type = NameMove THEN {KeyDirection, KeyDistance}
    ELSE IF action_type = NameMoveTo THEN {KeyX, KeyY}
    ELSE IF action_type = NameInteract THEN {KeyEntityId}
    ELSE {KeyEntityId, KeyItemId}

\* what json.loads makes of the cleaned text is an object that names one of
\* the five actions and whose args is an object
IsActionObject(decoded) ==
    /\ decoded.ok
    /\ decoded.v.t = "obj"
    /\ KeyAction \in DOMAIN decoded.v.f
    /\ KeyArgs \in DOMAIN decoded.v.f
    /\ decoded.v.f[KeyAction].t = "str"
    /\ decoded.v.f[KeyAction].s \in ActionTypes
    /\ decoded.v.f[KeyArgs].t = "obj"

ActionTypeOf(decoded) == decoded.v.f[KeyAction].s
ArgsDataOf(decoded) == decoded.v.f[KeyArgs].f

HasExtraArgsKey(decoded) ==
    /\ IsActionObject(decoded)
    /\ DOMAIN ArgsDataOf(decoded) \ ArgsKeys(ActionTypeOf(decoded)) # {}

\* C26: a reply whose args holds a key that the chosen action does not
\* define is turned down with an error that begins with invalid
C26_ExtraArgsKeyInvalid ==
    (parse_called /\ HasExtraArgsKey(json_loads(cleaned_text(last_raw_text))))
    => last_parsed.error.head = "invalid"

\* args_data gives the key the empty string
IsEmptyString(args_data, key) ==
    /\ key \in DOMAIN args_data
    /\ args_data[key].t = "str"
    /\ args_data[key].s = <<>>

HasEmptyId(decoded) ==
    /\ IsActionObject(decoded)
    /\ \/ /\ ActionTypeOf(decoded) \in {NameInteract, NameTransferItem}
          /\ IsEmptyString(ArgsDataOf(decoded), KeyEntityId)
       \/ /\ ActionTypeOf(decoded) = NameTransferItem
          /\ IsEmptyString(ArgsDataOf(decoded), KeyItemId)

\* C27: an interact or a transfer_item whose entity_id or item_id is the
\* empty string is turned down with an error that begins with invalid
C27_EmptyIdInvalid ==
    (parse_called /\ HasEmptyId(json_loads(cleaned_text(last_raw_text))))
    => last_parsed.error.head = "invalid"

\* the index of the first { of the text, 0 if it has none
first_brace(text) == Min_of({i \in 1..Len(text) : text[i] = "{"})

\* the substring from the first { through the brace at which the count of
\* braces comes back to 0, <<>> if there is none
embedded_object(text) ==
    IF first_brace(text) = 0 THEN <<>>
    ELSE IF closing_brace(text, first_brace(text), 0) = 0 THEN <<>>
    ELSE SubSeq(text, first_brace(text),
                closing_brace(text, first_brace(text), 0))

\* C28: when the text holds a valid action object, from its first { through
\* the matching brace, with prose before or after it, parse_action returns
\* what it returns for that object alone: the action, and the error ""
C28_ObjectInProseAccepted ==
    (/\ parse_called
     /\ parse_action_text(embedded_object(last_raw_text),
                          process_hash_order).error = Str("", ""))
    => last_parsed = parse_action_text(embedded_object(last_raw_text),
                                       process_hash_order)

\* C29: in the grid of the observation, a cell whose tile overlaps a wall is
\* '#': neither N, P nor D stands on it
C29_WallCellsStayWalls ==
    ascii_grid # <<>>
    => \A row \in 1..grid_size, col \in 1..grid_size :
          overlaps_wall(origin_tile(world_to_tile(obs_npc.x)) + col - 1,
                        origin_tile(world_to_tile(obs_npc.y)) + row - 1,
                        obs_walls)
          => ascii_grid[row][col] = "#"

\* the tile of a query point
query_tile(point) == <<point[1] \div TILE_SIZE, point[2] \div TILE_SIZE>>

\* C30: with every portal between two regions closed via
\* set_portal_open(id, false), find_path between tiles of those two regions
\* returns ok=false with reason NO_PATH.  The two regions are the two rooms
\* of test_closed_door, joined by one doorway in the dividing wall: after a
\* set_portal_open(id, false) that leaves no portal of the navigator open, a
\* query from a tile of the room left of the wall to a tile of the room right
\* of it fails with NO_PATH
C30_ClosedPortalsNoPath ==
    \A gap \in 0..(grid_height - 1) :
        ( /\ nav_walls = TwoRooms(gap)
          /\ last_portal_call # NoPortalCall /\ ~last_portal_call.is_open
          /\ path_response # NoResponse
          /\ query_tile(path_query.start)[1] < DividerColumn
          /\ query_tile(path_query.goal)[1] > DividerColumn
          /\ \A id \in DOMAIN portals : ~portals[id].is_open )
        => path_response = PathResponse(FALSE, "NO_PATH")

\* C31: after initialisation on a map where two rooms are joined by a doorway
\* gap in the dividing wall, the navigator has at least one portal at the
\* doorway, and the portals are exactly the walkable tiles that have a
\* 4-neighbour of a different flood-fill region
C31_DoorwayHasPortal ==
    \A gap \in 0..(grid_height - 1) :
        (nav_walls = TwoRooms(gap) /\ tile_to_region # <<>>)
        => /\ \E id \in DOMAIN portals :
                 /\ portals[id].center_x \div TILE_SIZE = DividerColumn
                 /\ portals[id].center_y \div TILE_SIZE = gap
           /\ { <<portals[id].center_x \div TILE_SIZE,
                  portals[id].center_y \div TILE_SIZE>> : id \in DOMAIN portals }
                = { t \in DOMAIN tile_to_region :
                      adjacent_regions(walkable_grid, tile_to_region, t) # {} }

\* a query between two walkable tiles of which one is reachable from the other
\* by the steps of the A* search has been answered
reachable_answered ==
    /\ tile_to_region # <<>>
    /\ path_query # NoQuery
    /\ path_response # NoResponse
    /\ is_walkable(walkable_grid, query_tile(path_query.start))
    /\ is_walkable(walkable_grid, query_tile(path_query.goal))
    /\ query_tile(path_query.goal)
         \in tiles_reached(walkable_grid, {query_tile(path_query.start)})

\* C32: once the navigation is initialised, find_path between two walkable
\* tiles of which one is reachable from the other answers ok = true, and any
\* two consecutive waypoints of the answer have line of sight on the grid
C32_ReachableHasSightPath ==
    reachable_answered
    => /\ path_response.ok
       /\ \A i \in 1..(Len(path_response.waypoints) - 1) :
             has_line_of_sight(walkable_grid, path_response.waypoints[i],
                               path_response.waypoints[i + 1])

\* a path around the dividing wall: smoothing kept a waypoint in between
C32_Witness ==
    /\ reachable_answered
    /\ nav_walls # {}
    /\ path_response.ok
    /\ Len(path_response.waypoints) >= 3

\* the segment between two waypoints takes a diagonal step past a blocked tile:
\* one of the two tiles beside the step is not walkable
cuts_corner(grid, start, end) ==
    LET line == sight_line(start, end)
    IN  \E i \in 1..(Len(line) - 1) :
           /\ line[i][1] # line[i + 1][1]
           /\ line[i][2] # line[i + 1][2]
           /\ \/ ~is_walkable(grid, <<line[i + 1][1], line[i][2]>>)
              \/ ~is_walkable(grid, <<line[i][1], line[i + 1][2]>>)

\* C33: no path find_path returns cuts a corner: no segment between two
\* consecutive waypoints moves diagonally past a tile with a blocked
\* orthogonal neighbour
C33_NoCornerCut ==
    (path_response # NoResponse /\ path_response.ok)
    => \A i \in 1..(Len(path_response.waypoints) - 1) :
          ~cuts_corner(walkable_grid, path_response.waypoints[i],
                       path_response.waypoints[i + 1])

C34_MoveStartsFreshSequence ==
    [][ LLMMoveOk =>
          /\ active_movement' = "move_dir"
          /\ movement_direction' = executed_direction'
          /\ movement_steps_remaining' = TotalSteps(executed_distance') - 1 ]_vars

\* C36: the NPC's position never changes during a tick in which
\* cooldowns.move is still above 0 after the cooldown update, whether the tick
\* runs a move of the LLM, a move_dir continuation or a move_to continuation
C36_NoMoveDuringCooldown ==
    [][ (ret' # None /\ CooldownsAfterUpdate(clock').move > 0)
          => npc_rect' = npc_rect ]_vars

\* C35: every utterance of the player that raises player_spoke is eventually
\* presented to the LLM in an observation and answered by a decision, also
\* when it arrives during a movement sequence or during the error backoff
\* (an observation carries what the bubble shows, and last_player_speech is
\* what raises player_spoke: an utterance that no observation has carried, that
\* has left the bubble and is no longer held in last_player_speech can reach
\* the LLM no more; the NPC hears every utterance of the run)
C35_UtteranceReachesLLM ==
    /\ \A u \in 1..MaxUtterances :
          (player_spoke /\ utterances = u) ~> (last_said_sent[u] > 0)
    /\ [](\A u \in 1..utterances :
             \/ last_said_sent[u] > 0
             \/ player_speech_text = u
             \/ last_player_speech = u)


\* C40: between ticks, a recorded sequence has steps left (active_movement
\* other than none implies movement_steps_remaining > 0), a move_to sequence
\* has its movement_target set, and with active_movement none no continuation
\* is due
C40_MovementStateConsistent ==
    /\ active_movement # "none" => movement_steps_remaining > 0
    /\ active_movement = "move_to" => movement_target.set
    /\ active_movement = "none" => ~ContinuationDue


\* the run lasts long enough for the steps that remain of the sequence, one
\* continuation step a frame
TimeForSequence ==
    HostNow + movement_steps_remaining * Max_of(SpeechFrameTimes)
      <= HostEpoch + SpeechRunTime

\* ceil(dist * 32 / speed), dist in tenths of a tile
StepsOfDistance(distance10) ==
    (distance10 * TILE_SIZE + 10 * NPC_SPEED - 1) \div (10 * NPC_SPEED)

\* C37: every movement sequence ends: while the ticks go on and time
\* advances, active_movement returns to none after finitely many continuation
\* steps; a move leaves at most ceil(dist * 32 / speed) steps in total, a
\* move_to at most 200, and every continuation step that is not put off by
\* the cooldown uses one of them up
\* (a recorded sequence is ended by its continuation steps, so one is to come)
C37_SequenceEnds ==
    /\ (active_movement # "none" /\ TimeForSequence)
          ~> (active_movement = "none")
    /\ [][ /\ active_movement' # "none" => ContinuationDue'
           /\ LLMMoveOk =>
                movement_steps_remaining' + 1 <= StepsOfDistance(executed_distance')
           /\ (ContinuationStep /\ ~startswith(ret', "cooldown")) =>
                movement_steps_remaining' < movement_steps_remaining
           /\ active_movement' = "move_to" => movement_steps_remaining' < 200 ]_vars


\* C38: every asynchronous LLM request eventually clears waiting_for_llm: the
\* thread that ends puts exactly one response with the id of its request on
\* the queue, whether the HTTP call succeeded or failed, and waiting_for_llm
\* is cleared by the ai_update that takes that response from the queue
C38_RequestEventuallyAnswered ==
    /\ waiting_for_llm ~> ~waiting_for_llm
    /\ [][ /\ \A id \in worker_threads \ worker_threads' :
                /\ Len(response_queue') = Len(response_queue) + 1
                /\ SubSeq(response_queue', 1, Len(response_queue)) = response_queue
                /\ response_queue'[Len(response_queue')].id = id
           /\ (waiting_for_llm /\ ~waiting_for_llm') =>
                /\ FirstAnswer(response_queue, llm_request_id) > 0
                /\ response_queue' = <<>>
                /\ pending_reaction' \in AiResponses
                     \/ shopkeeper_speech_text' \in AiResponses ]_vars

\* the request failed, its fallback answer came back and ai_update took it
C38_Witness ==
    /\ llm_request_id > 0
    /\ ~waiting_for_llm
    /\ worker_threads = {}
    /\ response_queue = <<>>
    /\ pending_reaction = "I'm a bit distracted right now."

====
